# Yirang Rollout: TLA+ models and proofs

Yirang Rollout deploys releases of a service to devices behind NAT. An operator
uploads artifacts to S3 and posts a command to a local REST server (Go); the
server fans the command out to one SQS queue per device; an agent on each device
(C++) polls its queue, downloads and verifies the release, installs it, switches
the active version, supervises the service process, and reports to a result
queue. This directory models the parts of it that keep state, model-checks them
with TLC, and proves the main results with TLAPS.

The models are translated from the source, not from its documentation. Where a
document or a message of the program promises something else than the code
does, the disagreement is a run that TLC violates (see *Findings*).

    tlc -workers 2 -config installer_safe.cfg MCReleaseInstaller
    tlapm DeviceProofs.tla

The modules with theorems are the ones whose names end in `Proofs`; tlapm checks
each of them on its own.

PROJECT.json lists the runs, the source lines behind every definition (`map`), a
faulty variant for every checked property (`mutants`: with it the property
fails), the hazards and the theorems.

## 1. The system

| component | state | operations | talks to |
|---|---|---|---|
| `ReleaseInstaller` | `releases/<id>`, `.staging-<id>`, `.retired-<id>`, `state.json` (active, previous), symlink `current` | install, activate, rollback, prune, installed, state | called by the engine; file system |
| `DeploymentEngine` | `handle_` in memory, `runtime.json` (pid, start token, boot identity, release) | apply, rollback_to, restart, start_active, stop, status, and inside them launch, resume, await_ready, recover | installer, supervisor, health checker |
| `HealthChecker`, probes | health state, two streak counters | evaluate, reset; check | called by await_ready |
| `PosixProcessSupervisor` | `finished_`, `adopted_` | start, adopt, status, stop (settle, reap) | the kernel |
| `AgentService` | download cache `versions/<id>`, `failing_message_`, `failing_attempts_` | handle, and one handler per command; report | consumer thread, artifact store, engine, result publisher |
| Messaging | none of its own (SQS holds the messages) | consume, publish, delete | SQS |
| Artifact store, `ReleaseManifest` | none | download, upload; parse, hash | S3, files |
| `SystemControl` | none | reboot | the device |
| REST service and queue | the goroutines of a request, its slots | Deploy, Command, publish, Results | SQS |
| `DeployCLI` | the process of one invocation: manifest, confirmation, request | deploy, command, results | artifact store, REST server |
| Configurations (agent, CLI) | the settings, fixed after start | load, parse, validate | files, arguments |
| REST HTTP layer | none | routing, decoding | clients |

How they interact: the consumer calls `AgentService::handle` on one thread, one
message at a time; the engine and the installer run on that thread. So there is
no data race inside the agent. What makes it hard is everything else that moves:

* the agent may die, or the device reboot, between any two file operations, and
  the service process outlives the agent (not the device);
* each file operation, system call, download or send may fail alone, and many
  failures are handled by further operations that may fail as well;
* SQS delivers at least once and in any order;
* the service may exit, ignore SIGTERM, flap, or let somebody else answer its
  health probe; process ids are given out again;
* the REST server sends concurrently through a bounded number of slots and
  several polls read one result queue;
* several operators may run the CLI at a time, within the same second, over
  source files that are being rebuilt; the CLI may be interrupted or give up
  waiting while the server goes on.

What makes each part correct:

* installer: the releases that `state.json` names can always be started; nothing
  incomplete is published; the rollback target differs from the active release;
  retention is respected; every call returns;
* engine: at most one instance, and it runs the active release; the pointer is
  not moved under a supervised instance; success means *recorded and
  supervised*; a failed deployment goes back to where it came from; operations end;
* health: the state follows from the history of probes, the wait is bounded;
* supervisor: what it says about a process is true, signals go to its own
  processes, calls end;
* agent: nothing unverified is installed, retries are counted per message and
  bounded, no command vanishes unreported;
* REST: every request is answered, a group's command runs only in the group, no
  report is lost;
* rollout: what is published can be downloaded, a download that succeeds has every
  file of its deployment as published, a destructive command reaches only whom the
  operator meant, a success shown to the operator is one, an update changes what it
  names.

The hazards, each with its source line and the properties that guard it, are in
PROJECT.json.

## 2. The modules

| module | models | composes |
|---|---|---|
| `ReleaseStore` | what the installer promises: releases appear and disappear as a whole | |
| `ReleaseInstaller` | `RolloutKit/Install/ReleaseInstaller.cpp` | refines `ReleaseStore` |
| `ReleaseInstallerProofs` | theorems about it | |
| `DeploymentEngine` | `RolloutKit/Deploy/DeploymentEngine.cpp`, the start of `YirangAgent/main.cpp` | extends `ReleaseInstaller` |
| `DeploymentEngineProofs` | theorems about it | uses those of the installer |
| `HealthChecker` | `RolloutKit/Health/HealthChecker.cpp` and `await_ready` | |
| `HealthCheckerProofs` | theorems about it | |
| `ProcessSupervisor` | `RolloutKit/Process/PosixProcessSupervisor.cpp`, the kernel's process table | |
| `ProcessSupervisorProofs` | theorems about it | |
| `AgentService` | `YirangAgent/AgentService.cpp`, the queue, the cache | |
| `AgentServiceProofs` | theorems about it | |
| `Device` | one device: the handler driving the engine, as `YirangAgent/main.cpp` wires them | extends `DeploymentEngine`, instantiates and refines `AgentService` |
| `DeviceProofs` | theorems about it | uses those of the engine and the agent |
| `RestApi` | `RestAPI/internal/service`, `internal/queue`, the agent's group test | |
| `RestApiProofs` | theorems about it | |
| `Paths` | path checks of server and device, with a reference definition | |
| `Documents` | `merge_object`, with a reference definition | |
| `Configuration` | how a setting comes about, in `YirangAgent` and `DeployCLI` | |
| `Rollout` | `DeployCLI`, the artifact store, and what a device does with a download and an update | extends `RestApi`, `Paths`, `Configuration` |
| `RolloutProofs` | theorems about it, about `Paths` and about `Configuration` | uses those of the server |
| `RolloutUpdates` | what an update did to a document | extends `Rollout`, `Documents` |
| `MC...` | the sets of faults and crash points of the runs, symmetry | |

Conventions. `Faults` is the set of operations that may fail in a run and
`CrashSteps` the set of steps at which the process may die; both may happen any
number of times. A step is one file or system operation whose failure or
interruption the code can tell apart, with everything the code does up to the
next such point. Definitions called *Faulty variant* are not part of any
specification.

**ReleaseInstaller.** A directory (`slots`, `staging`, `retired`) is missing,
partial or whole; it is "stale" or "mixed" when files of an earlier copy are among
a part, or all, of the last one, for `install` ignores an error of the `remove_all`
that clears staging. `install` is Install → CreateStaging → CopyFiles →
SweepOne/SweepDone (`sweep_retired`) → SetAside → Publish (the two renames of
`publish_staging`) → Cleanup, with Discard where the `StagingGuard` removes the
staging directory. `activate` and `rollback` write `state.json` in one step, for
it is written beside and renamed, and then refresh the symlink in two operations
whose errors the code ignores. `prune` removes directories one by one, each in
two steps. `state()` takes an error of its `exists()` for "no state.json"
(`ReadStates`), `installed()` skips what `is_directory()` fails on (`Listings`);
`activate`, `rollback` and `prune` go on with what they were told. Contents of files,
path checks and `updated_at` are abstracted; the order of `installed()` depends on
modification times that copies and the clock set, so any order is possible
(`Retained`).

**DeploymentEngine.** `op` and `at` follow the operation, `step` the installer
call inside it. `proc` says which release every live process runs; a process
stands for a pid with its start token, so it is never confused with another
(`ProcessSupervisor` looks into that). `record` is `runtime.json`: absent, of
this boot, of an earlier boot, or torn. Readiness is a choice, except that a
process probe does not succeed on an ended process; a network probe may. After a
failure apply goes through `recover` (stop, roll back, launch), after a failed
activation through `restore` (start_active). On every start of the agent
`start_active` runs before any command; where `state.json` is taken for missing it
finds no active release (`NoActiveRead`), where the record is, it launches beside
what runs (`RecordMisread`).

**HealthChecker.** `evaluate` with its two streaks, `reset`, and the loop of
`await_ready` in ticks, with a history of results that only the properties read.

**ProcessSupervisor.** The kernel's table maps ids to processes that run or are
zombies, with start tokens. Children of this agent remain zombies until it waits
for them; children of an earlier agent belong to init. `status`, `adopt` and the
phases of `stop` (SIGTERM, polling until the deadline, SIGKILL, settle for an
adopted process, reap for a child) are actions. SIGKILL takes effect at once. Of
a process group only the leader is modelled.

**AgentService.** `queued` holds the messages, `handling` the one at work.
Download creates the directory, fetches and verifies artifact by artifact, and
`PartialDownloadGuard` removes the directory when it does not succeed. Clean
removes every version directory file by file. Apply copies the directory as it
finds it. Every other command has its action. `Done` and `Transient` are the ends
of `handle`: report, count, consume. A file is missing, the artifact of the
manifest, or something else; an installed one may have been edited. The engine
is represented by what it copies and removes.

**Device.** The handler's variables (`at` renamed to `phase`) beside the engine's.
A command that calls the engine waits in phase "engine" until the operation ends,
and its reply is the outcome; `start_active` comes before the first message. The
agent's death ends both and leaves the message in the queue. `installed` follows
the file operations of the installer: the rename in `publish_staging` puts the
copied version directory there, a removal takes it away.

**RestApi.** `publish` as one goroutine per queue that takes a slot, sends, and
releases it; `waiter.Wait()`; the devices' group test; `Results` as receive,
delete, answer, for several polls at a time.

**Rollout.** One CLI process per request: arguments and configuration, among them
the file list of a deployment (`FileLists`), scope and confirmation, release id (the
second, by any machine's clock), one hash and one upload per file, the request, its
answer or none. `objects` is the store, by release id and file, so two deployments
with one id share their objects. `source` changes between any two steps. Of the agent
commands clean_old_version stands for the destructive ones, update_configuration
carries a payload, and deploy ends in download_version, whose handler is looked into
as far as contents matter: it works in a directory that may exist, fetches each file
over what is there, and leaves the other files alone (`FetchFile`). A download that
fails leaves the file as it was, as it came, or broken off, before the removal of the
directory, which may fail too (`Arriving`, `Left`); a cleaning may stop in any version
(`PartlyCleaned`); the agent may die in either, and the message comes again
(`DiesDownloading`, `DiesCleaning`).

**Paths, Documents.** A path is the sequence of its segments, a JSON object a
function. `DeviceAccepts` goes through `lexically_normal`, as the code does; `Depths`
and `Leaves` are the references it and `Merge` are checked against. `Rollout` leaves
open what merging does: it has the JSON objects in play (`JsonObjects`) and
`MergeObject` as constants, of which only that merging yields another such object is
assumed. `MCRollout` gives them as all objects over the keys of its document and
updates, and `Merge`; `RolloutUpdates` states the property that depends on `Merge`.
Normalization and depth are recursive functions, one value per segment, so that they
can be proved about.

**Configuration.** Default, file, argument, range, in this order. A value of
another kind counts as missing; an integer is cut to an int before its range is
checked. `IntMax` is 2^31 - 1 in the program and a constant here.

## 3. The runs

| run | instance | checks |
|---|---|---|
| `installer_safe` | 3 releases, keep 1; every fault but a failing restore, removal or clearing of staging and a misread state or listing; death anywhere but in the swap or a removal | `InstallerTypeOK`, `ReferencedWhole`, `PruneRetains`, `ImplementsStore` |
| `installer_any` | 2 releases, every fault, death at every step | `PublishesWhole`, `DistinctPointers` |
| `engine_tracked` | 3 releases, 2 processes, process probe; what `TrackingIsSafe` allows | `EngineTypeOK`, `SingleInstance`, `RunsActive`, `RecoverReturns` |
| `engine_any` | 2 releases, 3 processes, network probe, every fault of the engine, death at every step of it | `OkIsTracked`, `OperationsEnd` |
| `health` | thresholds 2 and 3, probe up to 2 ticks, timeout 8 | `HealthTypeOK`, `HealthFollowsHistory`, `BoundedWait`, `AwaitEnds` |
| `supervisor` | 2 ids given out 5 times, failing waits, tokens, signals | `SupervisorTypeOK`, `DownIsDown`, `StoppedIsDown`, `SignalsOwn`, `CallsEnd` |
| `agent_any` | 1 release of 1 file, every command, up to 3 messages queued, every fault but a lost report or deletion, death at every step | `AgentTypeOK`, `CountsQueued`, `LeavesAnswered`, `MessagesLeave` |
| `device` | 2 releases of 2 files, 2 processes, 7 commands for each release; corrupt objects, redeliveries, failing starts and writes; deaths at every step of the engine but between start and record, and of the handler but in a fetch, a verification or a removal | `RunsVerified`, `CacheVerified`, `SuccessIsActive`, `ImplementsAgent` |
| `api` | 2 queues, 1 slot, 2 polls of up to 2 reports each, failing sends, reports, deletions | `ReportsKept`, `ExecutesOwnGroup`, `RequestsAnswered` |
| `rollout` | 2 requests of 1 second, 2 file lists, 2 files each rebuilt once, 3 updates, 1 device; failing uploads, downloads and removals, lost requests and answers, interruptions, deaths of the agent | `RolloutTypeOK`, `PublishedIsStored`, `DownloadedAsPublished`, `CleansAsMeant`, `OkIsPublished`, `PathsAgree`, `UpdatesWhatItNames` |
| `agent_unverified` | violation | `VerifiedBeforeInstall` |
| `rollout_changed` | violation | `UploadedAsHashed` |

Why the bounds are enough. Three releases are the active one, its rollback
target and one that is applied or pruned; every operation names at most one
release besides the two pointers. Two releases are used where liveness rules out
symmetry. Two processes suffice to see a second instance, three to see one
beside an instance and its orphan. `MaxAttempts` is the code's 5. Two ids given
out five times let an id pass from the service to another program and back
(`MaxToken` bounds the starts). Eight ticks hold every mixture of streaks around
thresholds 2 and 3. One slot for two queues makes the goroutines compete. On the
device one message is queued at a time (`MaxQueued`, 3 in `agent_any`): which one is next is open,
and a lost deletion repeats it, so every order of commands occurs; `MaxAttempts`
is 1 there, for retries are the matter of `agent_any`. Two requests of one
second are two deployments that share an id, with equal lists, or one of which is a
part of the other, or a deployment and a cleaning; deployments of different seconds
share neither objects nor directory, and the theorem covers any number of seconds. One
rebuild per file (`MaxEdits`) can fall between any two steps. The device is registered in one group and
configured for another, so it refuses what names a group. The configuration of the CLI
is missing, the case in which its scope matters, with and without a group as argument,
or it means every device. Of the three updates two change the same inner object and
are both accepted, the second sets back what the first sets, and as a message that was
handled may stay in the queue, each may come again after the other. The constraint
`SomeTogether` keeps the run to what can disturb each other: no update goes out beside
a deployment, and beside a deployment no answer is lost; the theorems do without it.
Nothing else is bounded: calls, faults, deaths, redeliveries go on for ever, so the
state spaces are complete for their constants. Symmetric sets are used in safety runs
only (`installer_safe`, `engine_tracked`, `device`, `rollout`).

Fairness. Engine, health, supervisor and agent have weak fairness of
the agent's own steps: its thread keeps running while the agent lives.
`FairEngineSpec` adds that the service manager starts the agent again,
`FairAgentSpec` that a removal ends, `FairApiSpec` that the goroutines of a
request run and their sends end, at the latest with the request's time budget.
Nothing is assumed of the service, of init, of SQS, of the operator or of the
failures. `MessagesLeave` therefore says what the code guarantees: a failing
command is given up if from some time on no other message is handled between its
attempts and the agent stays alive. Another message in between, or a restart,
resets the single counter.

What the runs show beyond the table:

* `ReferencedWhole` needs its environment. A death between the two renames of
  `publish_staging`, a failing rename back, or a removal cut short can leave
  `state.json` naming a release that is missing or partial; so can a `prune()`
  that took `state.json` for missing. The code repairs none of these at the next
  start. `SwapIsSafe`, `RemovalIsSafe` and `StateIsRead` say exactly what is excluded.
* `PublishesWhole` says "complete". Where staging could not be cleared, files of an
  earlier copy are published with it.
* Nothing keeps the symlink `current` in step with `state.json` when its refresh fails
  or is cut off; nothing in the program reads it, and no property speaks of it.
* `SingleInstance` needs `TrackingIsSafe`. If `state.json`, `runtime.json` or the
  boot identity cannot be read as the agent starts, if `runtime.json` is taken for
  missing, if the record cannot be
  written and the process cannot be stopped, if a live process is refused, or if
  the agent dies between `start` and `write_record`, an instance remains that
  nobody supervises, and `stop()` without a handle does nothing.
* Applying the active release again replaces the directory its instance runs in
  before the instance is stopped; `RunsActive` speaks of release ids and is not
  disturbed by that.
* `RecoverReturns` has two cases: `apply` of the release that is already active
  recovers to the rollback target, not to the release that was running.
* `LeavesAnswered` assumes a configured result queue and publisher.
* `RunsVerified` and `CacheVerified` exclude deaths inside a download, its
  verification or a removal; the first finding shows why. A redelivered download that fails removes the
  complete version an earlier one had stored: the directory is complete or gone.
* `OkIsPublished` has no converse. An error shown by the CLI says nothing of the
  devices: the answer may have got lost, or a queue may have taken a message whose
  send failed.
* Nothing orders commands or keeps release ids apart. A late apply_version makes an
  older release active again; two deployments of one second share an id.
* `DownloadedAsPublished` is about the files of the message. A version directory is
  never emptied before a download: files of another deployment with the same id and
  another list, or of an earlier download that died, stay in it and are installed.
* `CleansAsMeant` covers a configuration that could not be loaded. One that loads
  but whose `target_group` is no string means every device too, and no warning
  says so (`LoadWarning`).
* `SignalsOwn` leaves one window open, between the last look at an adopted process
  and the signal.

### Findings

1. `agent_unverified`: the README says nothing runs before it is verified. An
   agent that dies inside a download leaves a version directory that
   `apply_version` accepts, for it asks only whether the directory exists.
2. `rollout_changed`: the README says the uploaded files and the hashes in the
   deployment request are of the same point in time. `deploy` reads each file
   twice, and a file rebuilt in between is uploaded with its old hash. The devices
   refuse it (`DownloadedAsPublished`), after the operator was told of a success.

## 4. The proofs

For every value of the constants that the named assumptions of the modules allow:
any finite set of releases, processes and queues, any messages, files and process
ids, any `KeepPrevious`, thresholds and times, and any `Faults` and `CrashSteps`
except where the last column says otherwise. The assumptions are that a value
which stands for "none" is not among the things it stands beside, that a message
is a command for a release (`MessagesAssumption`, on the device
`HandlerAssumption`), that a release has files (the CLI refuses an empty
`upload_file_list`), that the path of an update has a segment (`UpdatesAssumption`;
the empty path has one, the empty one), and the ranges the configurations guarantee or
the code enforces.

| theorem | says | under |
|---|---|---|
| `InstallerTypes` | `InstallerTypeOK` | |
| `InstallPublishesWhole` | `PublishesWhole` | |
| `PointersDistinct` | `DistinctPointers` | |
| `PruneLeavesFew` | `PruneRetains` | `StateIsRead`, `ListIsRead` |
| `ReferencedStayWhole` | `ReferencedWhole` | `SwapIsSafe`, `RemovalIsSafe`, `StateIsRead` |
| `InstallerImplementsStore` | the installer refines `ReleaseStore` | the same |
| `EngineTypes` | `EngineTypeOK` | |
| `EngineUsesInstaller` | an engine behaviour is an installer behaviour | |
| `SwitchesWithoutHandle` | `SwitchWithoutHandle` | |
| `RecoverGoesBack` | `RecoverReturns` | `StateIsRead` |
| `SuccessIsTracked` | `OkIsTracked` | |
| `OneInstance`, `InstanceRunsActive` | `SingleInstance`, `RunsActive` | `TrackingIsSafe` |
| `DeviceReferencedWhole` | `ReferencedWhole` under the engine | `SwapIsSafe`, `RemovalIsSafe`, `StateIsRead` |
| `HealthTypes` | `HealthTypeOK` | |
| `StateFollowsHistory` | `HealthFollowsHistory` | |
| `WaitIsBounded` | `BoundedWait` | |
| `SupervisorTypes` | `SupervisorTypeOK` | |
| `DownIsEnded` | `DownIsDown` | |
| `OnlyOwnSignalled` | `SignalsOwn` | |
| `StoppedStaysDown` | `StoppedIsDown` | |
| `AgentTypes` | `AgentTypeOK` | |
| `CountedIsQueued` | `CountsQueued` | |
| `ConsumedIsAnswered` | `LeavesAnswered` | `ReportsArrive` |
| `OnlyVerifiedInstalled` | `VerifiedBeforeInstall` | `CacheIsSafe` |
| `CacheStaysVerified` | `CacheVerified` | `CacheIsSafe` |
| `DeviceUsesEngine` | a behaviour of the device is one of the engine | |
| `DeviceImplementsAgent` | `ImplementsAgent`: the device refines `AgentService` | |
| `DeviceCacheVerified` | `CacheVerified` on the device | `CacheIsSafe` |
| `SuccessMeansActive` | `SuccessIsActive` | `DeviceIsSafe` |
| `OnlyVerifiedRuns` | `RunsVerified` | `DeviceIsSafe`, `TrackingIsSafe` |
| `ApiTypes` | `ApiTypeOK` | |
| `OnlyOwnGroup` | `ExecutesOwnGroup` | |
| `NoReportLost` | `ReportsKept` | `ClientsStay` |
| `SuccessIsDelivered` | an accepted request is in some queue, or reported on | `ReportsArrive` |
| `RolloutUsesApi` | a behaviour of the rollout is one of the server | |
| `RolloutTypesHold` | `RolloutTypeOK` | |
| `DeployedIsStored` | `PublishedIsStored` | |
| `DownloadsAreAsPublished` | `DownloadedAsPublished` | |
| `CleansOnlyAsMeant` | `CleansAsMeant` | |
| `SuccessIsPublished` | `OkIsPublished` | `ReportsArrive` |
| `UpdatesStayInside` | `PathsAgree` | |
| `DeviceRefusesWhatLeaves` | the device accepts a relative path exactly if no part of it leads out | any path |
| `AcceptedStaysInside` | what the server accepts, the device accepts, and stays inside | any path |
| `AgentNumbersInRange` | every number of the agent is an int in its range | any file |
| `RequestTimeoutPositive` | the CLI's timeout is in 1..`IntMax` | any file, any int as argument |

What the conditions exclude:

* `SwapIsSafe`, `RemovalIsSafe`: a death between the two renames of
  `publish_staging` or a failing rename back; a removal in `prune` that is cut
  short or fails part way.
* `StateIsRead`: an `exists()` that fails on `state.json`, which the code takes for
  "no release is active".
* `ListIsRead`: an `is_directory()` that fails in the listing of releases, which the
  code takes for "nothing there".
* `TrackingIsSafe`: `state.json`, `runtime.json` or the boot identity that cannot
  be read, or a file of these that is taken for missing, a record that cannot be written, a live process that is refused, a
  death between `start` and `write_record`.
* `CacheIsSafe`: a version directory that cannot be removed, a death inside a
  download or a removal (the first finding).
* `DeviceIsSafe`: `SwapIsSafe`, `RemovalIsSafe`, `StateIsRead` and `CacheIsSafe` together.
* `ReportsArrive`: a result that cannot be sent, which is only logged. (Both the
  agent's and the server's module have a condition of this name; without reports a
  handled message is gone from the queue and nothing says it was there.)
* `ClientsStay`: a client of `results` that is gone before the batch is written.

*Installer.* None of the invariants is inductive alone. `InstallerInv` adds that
the staged copy is complete from the end of the copy loop until it is renamed
(`StagedWhole`; otherwise Publish could publish anything), without earlier files where
staging was cleared (`StagingCleared`), and that `prune` works on releases neither
pointer names (`DoomedSpare`; if it read the pointers, which cannot move while it
runs). `SafeInv` adds, for `ReferencedWhole`, that a partial directory exists only
inside a removal (`TornOnlyRemoving`; otherwise `activate`, which asks only whether
the directory exists, could name one) and that during a swap the old copy is complete
and set aside (`SwapHoldsCopy`; the failing Publish renames it back). `RetainedInv`
says that what `prune` does not mean to remove is within the limit, from its choice
on, and exactly at the limit while there is something to remove. The refinement maps a
release to *installed* when its directory is complete or being swapped, so the two
renames are one step, or none, of `ReleaseStore`.

*Engine.* `EngineInv` is the installer's invariant with `Control` (which steps of
the engine go with which steps of the installer, and that nothing is supervised
from the end of a stop to the next start) and `GoalIsActive` (what is launched is
what `state.json` names). From it follows that every engine step is an installer
step or leaves the installer alone (`InstallerSteps`), so the installer's theorems
carry over, and that the pointer moves only without a handle. `Tracked` says where
a live process is known: in the handle and on record, or, from the death of an
agent to the end of the next `start_active`, on record alone. It implies both
`SingleInstance` and `RunsActive`. `PointerInv` follows one operation: `Recovery`
relates `state.json` to what `apply` read before it stopped the service (unchanged,
activated, or reverted, by the step), and `Recorded` says that while `apply` and
`restart` wait for readiness the instance is on record.

*Health.* The state is one of two variables and a history that grows; the property
compares the last streaks that reached a threshold. `HistoryInv` says that each
counter is the length of the streak that ends now, and names the ends of the last
long streak of either kind. `TimeInv` adds that a round begins before the deadline.

*Supervisor.* Four parts depend on each other. `TableInv`: a child in the kernel's
table is the process of the handle, and an id with a cached final status has neither
a child nor a running instance of ours. `RecordInv`: the handle is what is on record
and known as finished, adopted or a child; its start token tells the recorded process
from any later one with its id. `CallInv`: what `stop` works on is a child, or
an adopted process whose id has not changed hands since the last look. `AnswerInv`:
"down" is said of an id that is finished.

*Agent.* `WorkInv` says what the loops have in hand, and that the message at work is
still queued, so a count always belongs to a queued message. `CacheSound` describes
each version directory: complete or gone, unless the command at hand fills it (then
everything fetched is verified) or empties it. With `CacheIsSafe` that is inductive,
and an apply copies complete directories only.

*Device.* The two halves are written with instances, so the proof first shows that
the handler seen through `AgentServiceProofs` is the same handler (`SameNext`), and
that its lemmas hold with the device's constants. `DeviceInv` joins `EngineInv`,
`PointerInv` and `AgentInv` by four ties. `Wired`: an operation belongs to the
command at hand, and works on its release. `InstallWired`: the installer's steps
belong to `apply`, and the directory it copies has files. `ContentInv`: there are
files of exactly the releases of which a directory is left, in place or set aside.
`ReplyInv`: a success not taken yet has its release active and its instance on
record. Then every step of the device is a step of the engine (`EngineOfDevice`) and
of the handler (`HandlerOfDevice`), and the theorems of both apply: a live process
runs the active release (`Tracked`), that release has a directory
(`ReferencedWhole`), so it has files (`ContentInv`), and these were verified
(`VerifiedBeforeInstall`). Nothing about the device is assumed for the refinement.

*Server.* `ApiInv` adds to the types who was sent what (`Addressed`) and that a poll
not under way holds nothing (`NothingHeld`). That every request keeps within its
slots is part of `ApiTypeOK`; its proof counts the goroutines in the sending state.

*Rollout.* `RolloutInv` is proved on top of `ApiInv` and `Answers` (a request is
answered after it arrived, and with success only if a send succeeded); a step of the
CLI or of a device is a step of the server's model or leaves it alone (`StepUsesApi`),
so `ExecutesOwnGroup` and `AcceptedIsDelivered` carry over. For each invocation of the
CLI `RolloutInv` says, in five parts, what ties the process to the rest of the world.
`Sends`: its request is out exactly from the moment it waits, with the scope the
process had, and what was let through is valid. `Listed`: its list is one of
`FileLists` (which have no file twice), and it is at one of its files. `Stored`: of
a deployment the listed files before `next` are in the store, all of them once it is
past its upload. `Scoped`: past its beginning a destructive
command has a known scope. `Told`: success is what the server answered. A request that
was sent does not change what it says (`Frozen`), though its process may have been
killed, which is why what was fetched for it stays comparable. On a device
`Downloading` says that the message at work is still queued and that the listed files
fetched so far have its hashes; as no file is listed twice, the next fetch disturbs
none of them, and at the end all are there, whatever else is in the directory. Nothing
is said of a directory no download is at work in, for a failing removal or a death may
leave anything there, nor needs to be: every download compares every file of its list.
Objects may be overwritten by another deployment of the same second at any time: that
is why only `objects[id][place] # Nothing` is invariant, and why the hash is compared
per file.

*Paths.* That a path of any length stays inside needs an induction, and the library's
rules take an operator. `Least`, the least element of a set of numbers, follows from
the well-foundedness of `<`, and gives induction with a set instead (`UpTo`), and with it
that a function defined by recursion exists (`Recursion`): so `Normals` and `Depths`
satisfy their equations. Then, segment by segment, the path is either still inside,
and normalizes to as many names as it is deep, or has been outside, and normalizes to
something that begins with ".." (`WithinOrOutside`). Hence looking at the normalized
whole, as the device does, is enough.

*Configuration.* A number read from a file is in the range of int whatever int64 the
file holds (`IntInRange`, `ReadIsInt`), the defaults are in their ranges, and the
range check yields one or the other. This is what `KeepPrevious` of the installer
and the thresholds of the health checker are assumed to be.

*Only model-checked.* Liveness (`OperationsEnd`, `AwaitEnds`, `CallsEnd`,
`MessagesLeave`, `RequestsAnswered`): the prover has no rule for fairness and
ENABLED. `UpdatesWhatItNames`: `Merge` and `Leaves` recurse over the nesting of JSON
objects, which are recursive operators a module with theorems cannot use; what
`Merge` does is checked for the documents and updates of the run. Every other invariant
and action property of a passing run is a theorem.

## 5. What is not modelled

* The members of a process group besides its leader, and the pipe protocol with
  which `start` learns that exec failed (one step here).
* Contents of messages: parsing, the JSON of manifests and records, the texts of
  reports. A payload that is refused is one disjunct. Object keys are the pair of
  release id and file, so `make_object_key` is only its path check.
* `ReleaseManifest::serialize` and `parse`, which neither program calls.
* Settings no other module depends on: titles, logs, regions, credentials, and
  the values `validate_required` asks for (an agent without them does not start).
* The HTTP layer and its middleware, the S3 and SQS wrappers, sockets of the
  probes: I/O without state of its own.
* In `AgentService` and `Device` a release has one list of files; lists that differ
  under one id are the matter of `Rollout`. Files of an earlier copy that an uncleared
  staging directory adds are not files of the release there.
* A power failure that undoes a rename without fsync, for `state.json` (for
  `runtime.json` it is the fault "tear").
* Windows: its build stops for want of a process supervisor, so only the POSIX
  branches of the code are read.

## 6. Plan

Done, in this order: the installer with its abstract specification and proofs; the
engine on top of it with proofs; the agent; health; the supervisor; the server; the
device as agent and engine together; the rollout from the CLI to the device, with
paths, documents and configurations.

The proofs followed the same order; every invariant and action property of the runs
is a theorem now, but for `UpdatesWhatItNames`.

Next:

1. `ProcessSupervisor`: the process group's other members.
2. Rollout with two devices and the polls of `results`; the theorems hold for any
   number of either, the run has one device.
3. `Merge` as a function on objects of bounded depth, so that `UpdatesWhatItNames` can be
   proved by the induction of `RolloutProofs`.
