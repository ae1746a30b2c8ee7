---------------------------- MODULE AgentService ----------------------------
(***************************************************************************)
(* YirangAgent/AgentService.cpp: the agent's command handler, fed by an    *)
(* SQS queue, and the download cache it fills and cleans.                  *)
(*                                                                         *)
(* The queue delivers at least once and in any order; a message leaves it  *)
(* when the handler returns success and the deletion works.  The handler   *)
(* runs on one thread.  The deployment engine is represented by what it    *)
(* copies out of the cache; Device.tla puts DeploymentEngine.tla there.    *)
(***************************************************************************)
EXTENDS Naturals, FiniteSets

CONSTANTS Releases,
          Files,          \* the artifacts of a release: its install paths
          Messages,       \* the commands in play: [command, release]
          None,           \* no message, no file
          MaxAttempts,    \* kMaxTransientAttempts
          MaxQueued,      \* bound: messages in the queue at a time
          Faults,         \* the operations that may fail
          CrashSteps      \* the steps at which the agent may die

Commands == {"download_version", "apply_version", "rollback_version", "clean_old_version",
             "update_configuration", "current_status", "restart_service", "reboot_device",
             "rejected"}

ASSUME MessagesAssumption ==
  /\ Messages \subseteq [command: Commands, release: Releases]
  /\ None \notin Messages
ASSUME FilesAssumption == Files # {} /\ None \notin Files
ASSUME AttemptsAssumption == MaxAttempts \in Nat \ {0} /\ MaxQueued \in Nat

VARIABLES
  queued,     \* the messages in the queue, the one being handled included
  handling,   \* the message the handler works on
  at,         \* the handler's step
  todo,       \* download: artifacts to fetch; clean: directories to remove
  item,       \* the artifact just fetched, or the directory being removed
  present,    \* the releases that have a version directory
  files,      \* what is in it: files[r][f]
  installed,  \* what the releases the engine has installed hold
  failing,    \* failing_message_
  attempts,   \* failing_attempts_
  report      \* the message whose result was sent last

queueVars == <<queued, report>>
cacheVars == <<present, files>>
workVars == <<handling, at, todo, item>>
retryVars == <<failing, attempts>>
agentVars == <<queueVars, cacheVars, workVars, retryVars, installed>>

\* A file is missing, is the artifact of the manifest, or something else: a
\* download cut short, an object changed in the store.  An installed one may
\* have been edited since, by update_configuration.
FileStates == {"none", "good", "bad"}
InstalledStates == FileStates \cup {"edited"}
NoFiles == [f \in Files |-> "none"]
AllGood == [f \in Files |-> "good"]

HandlerSteps == {"idle", "dispatch", "fetch", "verify", "clean", "removing", "engine"}

AgentTypeOK ==
  /\ queued \subseteq Messages
  /\ report \in Messages \cup {None}
  /\ handling \in Messages \cup {None}
  /\ at \in HandlerSteps
  /\ (at = "idle") = (handling = None)
  /\ todo \subseteq Files \cup Releases
  /\ item \in Files \cup Releases \cup {None}
  /\ present \subseteq Releases
  /\ files \in [Releases -> [Files -> FileStates]]
  /\ installed \in [Releases -> [Files -> InstalledStates]]
  /\ failing \in Messages \cup {None}
  /\ attempts \in 0..(MaxAttempts - 1)

AgentInit ==
  /\ queued = {} /\ report = None
  /\ handling = None /\ at = "idle" /\ todo = {}
  /\ item = None
  /\ present = {}
  /\ files = [r \in Releases |-> NoFiles]
  /\ installed = [r \in Releases |-> NoFiles]
  /\ failing = None /\ attempts = 0

\* The release of the command at hand.
Release == handling.release
IsCommand(command) == at = "dispatch" /\ handling.command = command

-----------------------------------------------------------------------------
(* The queue                                                               *)

\* The operator publishes a command, or SQS delivers a deleted one again.
Send(m) ==
  /\ m \notin queued /\ Cardinality(queued) < MaxQueued
  /\ queued' = queued \cup {m}
  /\ UNCHANGED <<report, cacheVars, workVars, retryVars, installed>>

\* The consumer hands a message to handle(); any message may come next.
Receive(m) ==
  /\ at = "idle" /\ m \in queued
  /\ handling' = m /\ at' = "dispatch" /\ report' = None
  /\ UNCHANGED <<queued, cacheVars, todo, item, retryVars, installed>>

-----------------------------------------------------------------------------
(* The end of handle(): report(), then consume the message or leave it     *)

\* A result that cannot be sent is only logged.
Report == report' \in {handling} \cup IF "report" \in Faults THEN {report} ELSE {}

EndHandling ==
  /\ handling' = None /\ at' = "idle" /\ todo' = {} /\ item' = None

\* handle() returns success: the consumer deletes the message.
Consume == queued' \in {queued \ {handling}}
                       \cup IF "delete" \in Faults THEN {queued} ELSE {}

ForgetFailure == failing' = None /\ attempts' = 0

\* Faulty variant: the outcome is not reported.
DoneSilently == UNCHANGED report /\ ForgetFailure /\ Consume /\ EndHandling

\* Success and permanent failures, and what is rejected without a handler
\* (a message that does not parse, another group's, an unknown command).
Done == Report /\ ForgetFailure /\ Consume /\ EndHandling

\* Faulty variant: every failure counts as the first.
AttemptsForgotten == 1

\* record_failure(): the count starts again with another message.
AttemptsNow == IF failing = handling THEN attempts + 1 ELSE 1

\* Faulty variant: one attempt more than the limit.
TransientOnceMore ==
  /\ Report
  /\ IF AttemptsNow > MaxAttempts
       THEN ForgetFailure /\ Consume
       ELSE failing' = handling /\ attempts' = AttemptsNow /\ UNCHANGED queued
  /\ EndHandling

\* Faulty variant: the count survives the message that was given up.
TransientRemembers ==
  /\ Report
  /\ IF AttemptsNow >= MaxAttempts
       THEN UNCHANGED retryVars /\ Consume
       ELSE failing' = handling /\ attempts' = AttemptsNow /\ UNCHANGED queued
  /\ EndHandling

\* A transient failure: the message stays in the queue, up to the limit.
Transient ==
  /\ Report
  /\ IF AttemptsNow >= MaxAttempts
       THEN ForgetFailure /\ Consume
       ELSE failing' = handling /\ attempts' = AttemptsNow /\ UNCHANGED queued
  /\ EndHandling

-----------------------------------------------------------------------------
(* download_version                                                        *)

\* Faulty variant: a failed download leaves what it fetched.
KeepVersion(r) == r \in Releases /\ UNCHANGED cacheVars

\* What PartialDownloadGuard removes when the handler does not succeed: the
\* whole version directory, as far as it can.
RemoveVersion(r) ==
  \/ /\ present' = present \ {r}
     /\ files' = [files EXCEPT ![r] = NoFiles]
  \/ /\ "remove" \in Faults
     /\ UNCHANGED present
     /\ \E kept \in SUBSET Files :
          files' = [files EXCEPT ![r] = [f \in Files |-> IF f \in kept THEN @[f] ELSE "none"]]

\* create_directories(); a directory from an earlier download is reused.  A
\* payload without a release id or a list of artifacts is refused before that.
DownloadBegins ==
  /\ IsCommand("download_version")
  /\ \/ /\ present' = present \cup {Release}
        /\ at' = "fetch" /\ todo' = Files
        /\ UNCHANGED <<queueVars, handling, item, retryVars>>
     \/ Done /\ UNCHANGED present
     \/ "create" \in Faults /\ Transient /\ UNCHANGED present
  /\ UNCHANGED <<files, installed>>

\* What a download() that succeeds puts in place: the object the store holds
\* under the key, which need not be the one of the manifest.
Fetched == {"good"} \cup IF "corrupt" \in Faults THEN {"bad"} ELSE {}

\* store_->download() of one artifact, over whatever file is there.
Fetch(f) ==
  /\ at = "fetch" /\ f \in todo
  /\ \E content \in Fetched : files' = [files EXCEPT ![Release][f] = content]
  /\ at' = "verify" /\ item' = f
  /\ UNCHANGED <<queueVars, present, handling, todo, retryVars, installed>>

\* It fails: the entry is malformed or the artifact is not in the store, which
\* no retry will change, or the store cannot tell.
FetchFails ==
  /\ at = "fetch" /\ todo # {}
  /\ "download" \in Faults
  /\ Done \/ Transient
  /\ RemoveVersion(Release)
  /\ UNCHANGED installed

\* Faulty variant: the hash is not compared.
VerifyLeniently ==
  /\ at = "verify"
  /\ todo' = todo \ {item} /\ at' = "fetch" /\ item' = None
  /\ UNCHANGED <<queueVars, cacheVars, handling, retryVars, installed>>

\* The file has the hash of the manifest: file_sha256() tells any two contents
\* apart.
Matches(f) == files[Release][f] = "good"

\* file_sha256() against the manifest: a mismatch is permanent, a file that
\* cannot be read is not.
Verify ==
  /\ at = "verify"
  /\ \/ /\ Matches(item)
        /\ todo' = todo \ {item} /\ at' = "fetch" /\ item' = None
        /\ UNCHANGED <<queueVars, cacheVars, handling, retryVars>>
     \/ /\ ~Matches(item)
        /\ Done
        /\ RemoveVersion(Release)
     \/ /\ "hash" \in Faults
        /\ Transient
        /\ RemoveVersion(Release)
  /\ UNCHANGED installed

DownloadEnds ==
  /\ at = "fetch" /\ todo = {}
  /\ Done
  /\ UNCHANGED <<cacheVars, installed>>

-----------------------------------------------------------------------------
(* clean_old_version                                                       *)

\* A version_root that is not there, or is the service_root, ends the command.
CleanBegins ==
  /\ IsCommand("clean_old_version")
  /\ \/ /\ at' = "clean" /\ todo' = present
        /\ UNCHANGED <<queueVars, handling, item, retryVars>>
     \/ Done
  /\ UNCHANGED <<cacheVars, installed>>

\* The directory cannot be listed, at first or further on.
CleanListFails ==
  /\ at = "clean" /\ "list" \in Faults
  /\ Transient
  /\ UNCHANGED <<cacheVars, installed>>

CleanNext(r) ==
  /\ at = "clean" /\ r \in todo
  /\ at' = "removing" /\ item' = r
  /\ UNCHANGED <<queueVars, cacheVars, handling, todo, retryVars, installed>>

\* remove_all() of one version directory: its files go one by one, ...
CleanFile(f) ==
  /\ at = "removing"
  /\ files' = [files EXCEPT ![item][f] = "none"]
  /\ UNCHANGED <<queueVars, present, workVars, retryVars, installed>>

\* ... then the directory goes, or an error ends the command.
CleanDirectory ==
  /\ at = "removing"
  /\ \/ /\ present' = present \ {item}
        /\ files' = [files EXCEPT ![item] = NoFiles]
        /\ todo' = todo \ {item} /\ at' = "clean" /\ item' = None
        /\ UNCHANGED <<queueVars, handling, retryVars>>
     \/ /\ "remove" \in Faults
        /\ Transient
        /\ UNCHANGED cacheVars
  /\ UNCHANGED installed

CleanEnds ==
  /\ at = "clean" /\ todo = {}
  /\ Done
  /\ UNCHANGED <<cacheVars, installed>>

-----------------------------------------------------------------------------
(* apply_version, rollback_version, restart_service: the engine's commands *)

CallsEngine ==
  /\ at' = "engine"
  /\ UNCHANGED <<queueVars, handling, todo, item, retryVars>>

\* The version directory must exist, nothing more is asked of it.  Payloads
\* without a release id and an agent without an engine are refused as well.
ApplyVersion ==
  /\ IsCommand("apply_version")
  /\ (Release \in present /\ CallsEngine) \/ Done
  /\ UNCHANGED <<cacheVars, installed>>

RollbackVersion ==
  /\ IsCommand("rollback_version")
  /\ CallsEngine \/ Done
  /\ UNCHANGED <<cacheVars, installed>>

RestartService ==
  /\ IsCommand("restart_service")
  /\ CallsEngine \/ Done
  /\ UNCHANGED <<cacheVars, installed>>

Applying == at = "engine" /\ handling.command = "apply_version"

\* install() publishes what the version directory holds.  It refuses a
\* directory without files.
EngineInstalls ==
  /\ Applying
  /\ files[Release] # NoFiles
  /\ installed' = [installed EXCEPT ![Release] = files[Release]]
  /\ UNCHANGED <<queueVars, cacheVars, workVars, retryVars>>

\* A release goes: prune() removes it, or a set aside copy is swept.
EngineRemoves(r) ==
  /\ Applying
  /\ installed' = [installed EXCEPT ![r] = NoFiles]
  /\ UNCHANGED <<queueVars, cacheVars, workVars, retryVars>>

\* Whatever the engine returns ends the command: its failures are permanent.
EngineReturns ==
  /\ at = "engine"
  /\ Done
  /\ UNCHANGED <<cacheVars, installed>>

-----------------------------------------------------------------------------
(* The other commands                                                      *)

\* A message that does not parse is reported and consumed, as is one for
\* another group or with an unknown command.
Rejected ==
  /\ IsCommand("rejected")
  /\ Done
  /\ UNCHANGED <<cacheVars, installed>>

\* The reboot is scheduled, minutes ahead, or refused for good.
RebootDevice ==
  /\ IsCommand("reboot_device")
  /\ Done
  /\ UNCHANGED <<cacheVars, installed>>

\* merge_object() into a JSON file of the active release, which is written
\* beside it and renamed.
Edits(r) == \E f \in Files :
  /\ installed[r][f] # "none"
  /\ installed' = [installed EXCEPT ![r][f] = "edited"]

\* A payload, a path or a file that is not as it must be is refused for good;
\* a file that cannot be written is not.
UpdateConfiguration ==
  /\ IsCommand("update_configuration")
  /\ \/ (UNCHANGED installed \/ \E r \in Releases : Edits(r)) /\ Done
     \/ "disk" \in Faults /\ Transient /\ UNCHANGED installed
  /\ UNCHANGED cacheVars

\* The free space of the disk may be unknown for the moment.
CurrentStatus ==
  /\ IsCommand("current_status")
  /\ Done \/ ("disk" \in Faults /\ Transient)
  /\ UNCHANGED <<cacheVars, installed>>

-----------------------------------------------------------------------------
\* The agent dies; the message it worked on becomes visible again when its
\* visibility timeout ends.  The file it was fetching may be cut short.
AgentDies ==
  /\ at \in CrashSteps
  /\ EndHandling
  /\ ForgetFailure
  /\ \/ UNCHANGED files
     \/ \E f \in todo : at = "fetch" /\ files' = [files EXCEPT ![Release][f] = "bad"]
  /\ UNCHANGED <<queueVars, present, installed>>

\* Downloading and cleaning.
CacheStep ==
  \/ DownloadBegins \/ (\E f \in Files : Fetch(f)) \/ FetchFails \/ Verify \/ DownloadEnds
  \/ CleanBegins \/ CleanListFails \/ (\E r \in Releases : CleanNext(r))
  \/ (\E f \in Files : CleanFile(f)) \/ CleanDirectory \/ CleanEnds

\* The engine at work.
EngineWorks == EngineInstalls \/ \E r \in Releases : EngineRemoves(r)

\* The agent's thread.
AgentStep ==
  \/ \E m \in Messages : Receive(m)
  \/ CacheStep
  \/ ApplyVersion \/ RollbackVersion \/ RestartService \/ EngineWorks \/ EngineReturns
  \/ Rejected \/ RebootDevice \/ UpdateConfiguration \/ CurrentStatus

AgentNext == AgentStep \/ AgentDies \/ \E m \in Messages : Send(m)

AgentSpec == AgentInit /\ [][AgentNext]_agentVars

\* The consumer keeps polling and the handler keeps running; a removal ends,
\* and so does the engine's work (OperationsEnd of DeploymentEngine.tla).
FairAgentSpec ==
  /\ AgentSpec
  /\ WF_agentVars(AgentStep) /\ WF_agentVars(CleanDirectory) /\ WF_agentVars(EngineReturns)

-----------------------------------------------------------------------------
(* Properties                                                              *)

\* Nothing but complete, verified releases is installed: SHA-256 is checked
\* against the manifest before, however downloads, redeliveries, cleanings
\* and applies follow each other.  Only update_configuration changes a file
\* later.
VerifiedBeforeInstall ==
  \A r \in Releases :
    installed[r] = NoFiles \/ \A f \in Files : installed[r][f] \in {"good", "edited"}

\* Whenever no command is at work, a version directory holds a complete,
\* verified release: a failed download leaves none.
CacheVerified ==
  at = "idle" => \A r \in Releases : files[r] = IF r \in present THEN AllGood ELSE NoFiles

\* The attempts counted are those of a message that will be delivered again;
\* they never carry over to a later command.
CountsQueued ==
  IF failing = None THEN attempts = 0 ELSE attempts > 0 /\ failing \in queued

\* A message leaves the queue only after its outcome was reported.
LeavesAnswered == [][\A m \in queued \ queued' : report' = m]_agentVars

\* A command that keeps failing is given up: it leaves the queue once no other
\* message is handled between its attempts and the agent stays alive, for
\* both reset the count (and once deletions work).
MessagesLeave ==
  \A m \in Messages :
    <>[][handling' \in {m, None} /\ ~AgentDies]_agentVars => []<>(m \notin queued)
=============================================================================
