------------------------- MODULE AgentServiceProofs -------------------------
(***************************************************************************)
(* Theorems about AgentService for every set of releases, files and        *)
(* messages, any number of attempts and, except where a theorem names a    *)
(* condition, any faults and crash points.                                 *)
(***************************************************************************)
EXTENDS AgentService, TLAPS

\* What the handler keeps in todo and item while it is in a loop.
LoopData ==
  /\ at \in {"fetch", "verify"} => todo \subseteq Files
  /\ at = "verify" => item \in todo
  /\ at \in {"clean", "removing"} => todo \subseteq Releases
  /\ at = "removing" => item \in Releases

\* The message being handled is still in the queue: it leaves at the end.
HandlingQueued == handling # None => handling \in queued

\* The handler's part of AgentTypeOK, ...
WorkTypes ==
  /\ queued \subseteq Messages
  /\ report \in Messages \cup {None}
  /\ handling \in Messages \cup {None}
  /\ at \in HandlerSteps
  /\ (at = "idle") = (handling = None)
  /\ todo \subseteq Files \cup Releases
  /\ item \in Files \cup Releases \cup {None}
  /\ failing \in Messages \cup {None}
  /\ attempts \in 0..(MaxAttempts - 1)

\* ... and that of the disk.
DiskTypes ==
  /\ present \subseteq Releases
  /\ files \in [Releases -> [Files -> FileStates]]
  /\ installed \in [Releases -> [Files -> InstalledStates]]

WorkInv == WorkTypes /\ LoopData /\ HandlingQueued /\ CountsQueued
AgentInv == WorkInv /\ DiskTypes

-----------------------------------------------------------------------------
\* The release of the command at hand is one of Releases.
LEMMA ReleaseType ==
  ASSUME WorkTypes, at # "idle"
  PROVE  handling \in Messages /\ handling # None /\ Release \in Releases
  BY MessagesAssumption DEF WorkTypes, Release

\* However handle() ends, its message is counted only if it stays queued.
LEMMA EndKeepsWork ==
  ASSUME WorkInv, at # "idle", Done \/ Transient
  PROVE  WorkInv'
<1>1. handling \in Messages /\ handling # None /\ handling \in queued
  BY ReleaseType DEF WorkInv, HandlingQueued
<1>2. /\ handling' = None /\ at' = "idle" /\ todo' = {} /\ item' = None
      /\ report' \in {handling, report}
  BY DEF Done, Transient, EndHandling, Report
<1>3. \/ /\ failing' = None /\ attempts' = 0
         /\ queued' \in {queued, queued \ {handling}}
      \/ /\ failing' = handling /\ attempts' = AttemptsNow /\ AttemptsNow < MaxAttempts
         /\ queued' = queued
  <2>1. AttemptsNow \in Nat
    BY AttemptsAssumption DEF AttemptsNow, WorkInv, WorkTypes
  <2> QED
    BY <2>1, AttemptsAssumption DEF Done, Transient, ForgetFailure, Consume
<1>4. AttemptsNow \in Nat \ {0}
  BY AttemptsAssumption DEF AttemptsNow, WorkInv, WorkTypes
<1>5. WorkTypes'
  BY <1>1, <1>2, <1>3, <1>4, AttemptsAssumption DEF WorkInv, WorkTypes, HandlerSteps
<1>6. LoopData' /\ HandlingQueued'
  BY <1>2 DEF LoopData, HandlingQueued
<1>7. CountsQueued'
  BY <1>1, <1>3, <1>4, MessagesAssumption DEF CountsQueued
<1> QED
  BY <1>5, <1>6, <1>7 DEF WorkInv

\* The handler moves on with the same message.
LEMMA MoveKeepsWork ==
  ASSUME WorkInv, at # "idle", at' \in HandlerSteps \ {"idle"},
         UNCHANGED <<queueVars, handling, retryVars>>,
         todo' \subseteq Files \cup Releases, item' \in Files \cup Releases \cup {None},
         LoopData'
  PROVE  WorkInv'
<1>1. WorkTypes'
  BY DEF WorkInv, WorkTypes, queueVars, retryVars
<1>2. HandlingQueued' /\ CountsQueued'
  BY DEF WorkInv, HandlingQueued, CountsQueued, queueVars, retryVars
<1> QED
  BY <1>1, <1>2 DEF WorkInv

\* A version directory after RemoveVersion still holds files of the old states.
LEMMA RemoveKeepsDisk ==
  ASSUME DiskTypes, NEW r \in Releases, RemoveVersion(r), UNCHANGED installed
  PROVE  DiskTypes'
<1>1. ASSUME NEW content \in [Files -> FileStates], files' = [files EXCEPT ![r] = content]
      PROVE  files' \in [Releases -> [Files -> FileStates]]
  BY <1>1 DEF DiskTypes
<1>2. NoFiles \in [Files -> FileStates]
  BY DEF NoFiles, FileStates
<1>3. ASSUME NEW kept \in SUBSET Files
      PROVE  [f \in Files |-> IF f \in kept THEN files[r][f] ELSE "none"] \in [Files -> FileStates]
  BY DEF DiskTypes, FileStates
<1>4. files' \in [Releases -> [Files -> FileStates]]
  BY <1>1, <1>2, <1>3 DEF RemoveVersion
<1>5. present' \subseteq Releases
  BY DEF RemoveVersion, DiskTypes
<1> QED
  BY <1>4, <1>5 DEF DiskTypes

\* download_version.
LEMMA DownloadPreserves ==
  ASSUME AgentInv,
         \/ DownloadBegins \/ FetchFails \/ Verify \/ DownloadEnds
         \/ \E f \in Files : Fetch(f)
  PROVE  AgentInv'
<1> USE DEF AgentInv
<1>1. at \in {"dispatch", "fetch", "verify"} /\ at # "idle" /\ Release \in Releases
  <2>1. at \in {"dispatch", "fetch", "verify"}
    BY DEF DownloadBegins, FetchFails, Verify, DownloadEnds, Fetch, IsCommand
  <2> QED
    BY <2>1, ReleaseType DEF WorkInv
<1>2. CASE DownloadBegins
  <2>1. DiskTypes'
    BY <1>1, <1>2 DEF DownloadBegins, DiskTypes
  <2>2. ASSUME ~Done, ~Transient PROVE WorkInv'
    BY <1>1, <1>2, <2>2, MoveKeepsWork
    DEF DownloadBegins, LoopData, HandlerSteps, WorkInv, WorkTypes
  <2> QED
    BY <1>1, <2>1, <2>2, EndKeepsWork
<1>3. ASSUME NEW f \in Files, Fetch(f) PROVE AgentInv'
  <2>1. /\ at' = "verify" /\ item' = f /\ f \in todo /\ at = "fetch"
        /\ UNCHANGED <<queueVars, present, handling, todo, retryVars, installed>>
    BY <1>3 DEF Fetch
  <2>2. LoopData' /\ todo' \subseteq Files
    BY <2>1 DEF LoopData, WorkInv
  <2>3. WorkInv'
    BY <1>1, <2>1, <2>2, MoveKeepsWork DEF HandlerSteps
  <2>4. PICK content \in FileStates : files' = [files EXCEPT ![Release][f] = content]
    BY <1>3 DEF Fetch, Fetched, FileStates
  <2>5. DiskTypes'
    BY <1>1, <2>1, <2>4 DEF DiskTypes
  <2> QED
    BY <2>3, <2>5
<1>4. CASE FetchFails
  BY <1>1, <1>4, EndKeepsWork, RemoveKeepsDisk DEF FetchFails
<1>5. CASE Verify
  <2>1. CASE /\ todo' = todo \ {item} /\ at' = "fetch" /\ item' = None
             /\ UNCHANGED <<queueVars, cacheVars, handling, retryVars, installed>>
    <3>1. LoopData' /\ todo' \subseteq Files
      BY <1>5, <2>1 DEF LoopData, WorkInv, Verify
    <3>2. WorkInv'
      BY <1>1, <2>1, <3>1, MoveKeepsWork DEF HandlerSteps
    <3> QED
      BY <2>1, <3>2 DEF DiskTypes, cacheVars
  <2>2. CASE (Done \/ Transient) /\ RemoveVersion(Release) /\ UNCHANGED installed
    BY <1>1, <2>2, EndKeepsWork, RemoveKeepsDisk
  <2> QED
    BY <1>5, <2>1, <2>2 DEF Verify
<1>6. CASE DownloadEnds
  BY <1>1, <1>6, EndKeepsWork DEF DownloadEnds, DiskTypes, cacheVars
<1> QED
  BY <1>2, <1>3, <1>4, <1>5, <1>6

\* clean_old_version.
LEMMA CleanPreserves ==
  ASSUME AgentInv,
         \/ CleanBegins \/ CleanListFails \/ CleanDirectory \/ CleanEnds
         \/ \E r \in Releases : CleanNext(r)
         \/ \E f \in Files : CleanFile(f)
  PROVE  AgentInv'
<1> USE DEF AgentInv
<1>1. at \in {"dispatch", "clean", "removing"} /\ at # "idle"
  BY DEF CleanBegins, CleanListFails, CleanDirectory, CleanEnds, CleanNext, CleanFile, IsCommand
<1>2. CASE CleanBegins
  <2>1. DiskTypes'
    BY <1>2 DEF CleanBegins, DiskTypes, cacheVars
  <2>2. ASSUME ~Done PROVE WorkInv'
    BY <1>1, <1>2, <2>2, MoveKeepsWork
    DEF CleanBegins, LoopData, HandlerSteps, WorkInv, WorkTypes, DiskTypes
  <2> QED
    BY <1>1, <2>1, <2>2, EndKeepsWork
<1>3. CASE CleanListFails \/ CleanEnds
  BY <1>1, <1>3, EndKeepsWork DEF CleanListFails, CleanEnds, DiskTypes, cacheVars
<1>4. ASSUME NEW r \in Releases, CleanNext(r) PROVE AgentInv'
  <2>1. /\ at = "clean" /\ at' = "removing" /\ item' = r
        /\ UNCHANGED <<queueVars, cacheVars, handling, todo, retryVars, installed>>
    BY <1>4 DEF CleanNext
  <2>2. LoopData' /\ todo' \subseteq Releases
    BY <2>1 DEF LoopData, WorkInv
  <2>3. WorkInv'
    BY <1>1, <2>1, <2>2, MoveKeepsWork DEF HandlerSteps
  <2> QED
    BY <2>1, <2>3 DEF DiskTypes, cacheVars
<1>5. ASSUME NEW f \in Files, CleanFile(f) PROVE AgentInv'
  <2>1. at = "removing" /\ item \in Releases
    BY <1>5 DEF CleanFile, LoopData, WorkInv
  <2>2. files' = [files EXCEPT ![item][f] = "none"] /\ UNCHANGED <<present, installed>>
    BY <1>5 DEF CleanFile
  <2>3. DiskTypes'
    BY <2>1, <2>2 DEF DiskTypes, FileStates
  <2>4. WorkInv'
    BY <1>5 DEF CleanFile, WorkInv, WorkTypes, LoopData, HandlingQueued, CountsQueued,
                queueVars, workVars, retryVars
  <2> QED
    BY <2>3, <2>4
<1>6. CASE CleanDirectory
  <2>1. at = "removing" /\ item \in Releases
    BY <1>6 DEF CleanDirectory, LoopData, WorkInv
  <2>2. NoFiles \in [Files -> FileStates]
    BY DEF NoFiles, FileStates
  <2>3. DiskTypes'
    BY <1>6, <2>1, <2>2 DEF CleanDirectory, DiskTypes, cacheVars
  <2>4. ASSUME ~Transient PROVE WorkInv'
    <3>1. /\ todo' = todo \ {item} /\ at' = "clean" /\ item' = None
          /\ UNCHANGED <<queueVars, handling, retryVars>>
      BY <1>6, <2>4 DEF CleanDirectory
    <3>2. LoopData' /\ todo' \subseteq Releases
      BY <2>1, <3>1 DEF LoopData, WorkInv
    <3> QED
      BY <1>1, <3>1, <3>2, MoveKeepsWork DEF HandlerSteps
  <2> QED
    BY <1>1, <2>3, <2>4, EndKeepsWork
<1> QED
  BY <1>2, <1>3, <1>4, <1>5, <1>6

\* A release whose files were copied, removed or edited.
LEMMA InstalledKeepsDisk ==
  ASSUME DiskTypes, UNCHANGED cacheVars,
         NEW r \in Releases, NEW content \in [Files -> InstalledStates],
         installed' = [installed EXCEPT ![r] = content]
  PROVE  DiskTypes'
  BY DEF DiskTypes, cacheVars

\* The commands of the engine and the others.
LEMMA CommandPreserves ==
  ASSUME AgentInv,
         \/ ApplyVersion \/ RollbackVersion \/ RestartService \/ EngineWorks \/ EngineReturns
         \/ Rejected \/ RebootDevice \/ UpdateConfiguration \/ CurrentStatus
  PROVE  AgentInv'
<1> USE DEF AgentInv
<1>1. CASE ApplyVersion \/ RollbackVersion \/ RestartService
  <2>1. at = "dispatch" /\ UNCHANGED <<cacheVars, installed>> /\ (CallsEngine \/ Done)
    BY <1>1 DEF ApplyVersion, RollbackVersion, RestartService, IsCommand
  <2>2. ASSUME CallsEngine PROVE WorkInv'
    BY <2>1, <2>2, MoveKeepsWork
    DEF CallsEngine, LoopData, HandlerSteps, WorkInv, WorkTypes
  <2> QED
    BY <2>1, <2>2, EndKeepsWork DEF DiskTypes, cacheVars
<1>2. CASE EngineWorks
  <2>1. at # "idle" /\ UNCHANGED <<queueVars, cacheVars, workVars, retryVars>>
    BY <1>2 DEF EngineWorks, EngineInstalls, EngineRemoves, Applying
  <2>2. WorkInv'
    BY <2>1 DEF WorkInv, WorkTypes, LoopData, HandlingQueued, CountsQueued,
                queueVars, workVars, retryVars
  <2>3. CASE EngineInstalls
    <3>1. Release \in Releases
      BY <2>1, ReleaseType DEF WorkInv
    <3>2. files[Release] \in [Files -> InstalledStates]
      BY <3>1 DEF DiskTypes, InstalledStates
    <3> QED
      BY <2>1, <2>2, <2>3, <3>1, <3>2, InstalledKeepsDisk DEF EngineInstalls
  <2>4. ASSUME NEW r \in Releases, EngineRemoves(r) PROVE AgentInv'
    <3>1. NoFiles \in [Files -> InstalledStates]
      BY DEF NoFiles, InstalledStates, FileStates
    <3> QED
      BY <2>1, <2>2, <2>4, <3>1, InstalledKeepsDisk DEF EngineRemoves
  <2> QED
    BY <1>2, <2>3, <2>4 DEF EngineWorks
<1>3. CASE EngineReturns \/ Rejected \/ RebootDevice \/ CurrentStatus
  BY <1>3, EndKeepsWork
  DEF EngineReturns, Rejected, RebootDevice, CurrentStatus, IsCommand, DiskTypes, cacheVars
<1>4. CASE UpdateConfiguration
  <2>1. at = "dispatch" /\ UNCHANGED cacheVars /\ (Done \/ Transient)
    BY <1>4 DEF UpdateConfiguration, IsCommand
  <2>2. ASSUME NEW r \in Releases, Edits(r) PROVE DiskTypes'
    <3>1. PICK f \in Files : installed' = [installed EXCEPT ![r][f] = "edited"]
      BY <2>2 DEF Edits
    <3> QED
      BY <2>1, <3>1 DEF DiskTypes, cacheVars, InstalledStates
  <2>3. DiskTypes'
    BY <1>4, <2>1, <2>2 DEF UpdateConfiguration, DiskTypes, cacheVars
  <2> QED
    BY <2>1, <2>3, EndKeepsWork
<1> QED
  BY <1>1, <1>2, <1>3, <1>4

\* Messages come, and the agent dies.
LEMMA OutsidePreserves ==
  ASSUME AgentInv, AgentDies \/ \E m \in Messages : Send(m) \/ Receive(m)
  PROVE  AgentInv'
<1> USE DEF AgentInv
<1>1. ASSUME NEW m \in Messages, Send(m) PROVE AgentInv'
  BY <1>1 DEF Send, WorkInv, WorkTypes, LoopData, HandlingQueued, CountsQueued, DiskTypes,
              cacheVars, workVars, retryVars
<1>2. ASSUME NEW m \in Messages, Receive(m) PROVE AgentInv'
  BY <1>2, MessagesAssumption
  DEF Receive, WorkInv, WorkTypes, LoopData, HandlingQueued, CountsQueued, DiskTypes,
      HandlerSteps, cacheVars, retryVars
<1>3. CASE AgentDies
  <2>1. WorkInv'
    BY <1>3, AttemptsAssumption
    DEF AgentDies, EndHandling, ForgetFailure, WorkInv, WorkTypes, LoopData, HandlingQueued,
        CountsQueued, HandlerSteps, queueVars
  <2>2. ASSUME NEW f \in todo, at = "fetch", files' = [files EXCEPT ![Release][f] = "bad"]
        PROVE  files' \in [Releases -> [Files -> FileStates]]
    <3>1. f \in Files /\ Release \in Releases
      BY <2>2, ReleaseType DEF WorkInv, LoopData
    <3> QED
      BY <2>2, <3>1 DEF DiskTypes, FileStates
  <2>3. files' \in [Releases -> [Files -> FileStates]]
    BY <1>3, <2>2 DEF AgentDies, DiskTypes
  <2> QED
    BY <1>3, <2>1, <2>3 DEF AgentDies, DiskTypes
<1> QED
  BY <1>1, <1>2, <1>3

LEMMA AgentInitially == AgentInit => AgentInv
  BY AttemptsAssumption
  DEF AgentInit, AgentInv, WorkInv, WorkTypes, LoopData, HandlingQueued, CountsQueued, DiskTypes,
      HandlerSteps, NoFiles, FileStates, InstalledStates

LEMMA AgentInvStep == AgentInv /\ [AgentNext]_agentVars => AgentInv'
<1> SUFFICES ASSUME AgentInv, [AgentNext]_agentVars PROVE AgentInv'
  OBVIOUS
<1>1. CASE UNCHANGED agentVars
  BY <1>1
  DEF AgentInv, WorkInv, WorkTypes, LoopData, HandlingQueued, CountsQueued, DiskTypes,
      agentVars, queueVars, cacheVars, workVars, retryVars
<1> QED
  BY <1>1, DownloadPreserves, CleanPreserves, CommandPreserves, OutsidePreserves
  DEF AgentNext, AgentStep, CacheStep

\* The handler's variables keep their types; in particular the attempts at a
\* message stay below the limit, at which it is given up.
THEOREM AgentTypes == AgentSpec => []AgentTypeOK
<1>1. AgentInv => AgentTypeOK
  BY DEF AgentInv, WorkInv, WorkTypes, DiskTypes, AgentTypeOK
<1> QED
  BY <1>1, AgentInitially, AgentInvStep, PTL DEF AgentSpec

\* The attempts that are counted belong to a message that is still queued,
\* whatever is delivered in between, fails or dies.
THEOREM CountedIsQueued == AgentSpec => []CountsQueued
<1>1. AgentInv => CountsQueued
  BY DEF AgentInv, WorkInv
<1> QED
  BY <1>1, AgentInitially, AgentInvStep, PTL DEF AgentSpec

-----------------------------------------------------------------------------
\* The result queue takes every report.
ReportsArrive == "report" \notin Faults

\* Only the end of handle() takes a message out of the queue.
LEMMA QueueStep ==
  ASSUME [AgentNext]_agentVars
  PROVE  Done \/ Transient \/ queued \subseteq queued'
<1> USE DEF queueVars, CallsEngine
<1>1. CASE CacheStep
  BY <1>1
  DEF CacheStep, DownloadBegins, Fetch, FetchFails, Verify, DownloadEnds, CleanBegins,
      CleanListFails, CleanNext, CleanFile, CleanDirectory, CleanEnds
<1>2. CASE ApplyVersion \/ RollbackVersion \/ RestartService \/ EngineWorks \/ EngineReturns
  BY <1>2
  DEF ApplyVersion, RollbackVersion, RestartService, EngineWorks, EngineInstalls, EngineRemoves,
      EngineReturns
<1>3. CASE Rejected \/ RebootDevice \/ UpdateConfiguration \/ CurrentStatus
  BY <1>3 DEF Rejected, RebootDevice, UpdateConfiguration, CurrentStatus
<1>4. CASE AgentDies \/ (\E m \in Messages : Send(m) \/ Receive(m)) \/ UNCHANGED agentVars
  BY <1>4 DEF AgentDies, Send, Receive, agentVars
<1> QED
  BY <1>1, <1>2, <1>3, <1>4 DEF AgentNext, AgentStep

\* No command is consumed without an answer, as long as the result queue takes
\* the answers.
THEOREM ConsumedIsAnswered == ASSUME ReportsArrive PROVE AgentSpec => LeavesAnswered
<1>1. ASSUME [AgentNext]_agentVars
      PROVE  [\A m \in queued \ queued' : report' = m]_agentVars
  <2>1. ASSUME Done \/ Transient, NEW m \in queued \ queued' PROVE report' = m
    <3>1. report' = handling /\ m = handling
      BY <2>1 DEF Done, Transient, Report, Consume, ReportsArrive
    <3> QED
      BY <3>1
  <2> QED
    BY <1>1, <2>1, QueueStep
<1> QED
  BY <1>1, PTL DEF AgentSpec, LeavesAnswered

-----------------------------------------------------------------------------
\* Removals work, and the agent does not die while it is filling or emptying a
\* version directory.  (A directory it leaves half filled is installed by the
\* next apply_version: the run agent_unverified.)
CacheIsSafe ==
  /\ "remove" \notin Faults
  /\ CrashSteps \cap {"fetch", "verify", "removing"} = {}

\* The release whose directory the command at hand is filling, or emptying.
Filling(r) == at \in {"fetch", "verify"} /\ r = Release
Emptying(r) == at = "removing" /\ r = item

\* The artifacts that are no longer to do were verified; every other directory
\* is complete, or not there.
CacheSound ==
  \A r \in Releases :
    IF Filling(r) THEN r \in present /\ \A f \in Files \ todo : files[r][f] = "good"
    ELSE Emptying(r) \/ files[r] = IF r \in present THEN AllGood ELSE NoFiles

SafeInv == CacheSound /\ VerifiedBeforeInstall

\* A directory that was removed, or filled, is sound again.
LEMMA RemovedIsSound ==
  ASSUME CacheIsSafe, AgentInv, CacheSound, at \in {"fetch", "verify"},
         RemoveVersion(Release), EndHandling
  PROVE  CacheSound'
<1>1. Release \in Releases
  BY ReleaseType DEF AgentInv, WorkInv
<1>2. present' = present \ {Release} /\ files' = [files EXCEPT ![Release] = NoFiles]
  BY DEF RemoveVersion, CacheIsSafe
<1>3. ASSUME NEW r \in Releases PROVE files'[r] = IF r \in present' THEN AllGood ELSE NoFiles
  BY <1>1, <1>2 DEF CacheSound, Filling, Emptying, AgentInv, DiskTypes
<1> QED
  BY <1>3 DEF CacheSound, EndHandling, Filling, Emptying, NoFiles, AllGood

LEMMA DownloadKeepsCache ==
  ASSUME CacheIsSafe, AgentInv, CacheSound,
         \/ DownloadBegins \/ FetchFails \/ Verify \/ DownloadEnds
         \/ \E f \in Files : Fetch(f)
  PROVE  CacheSound'
<1> USE DEF NoFiles, AllGood
<1>1. CASE DownloadBegins
  <2>1. at = "dispatch" /\ files' = files
    BY <1>1 DEF DownloadBegins, IsCommand
  <2>2. CASE /\ present' = present \cup {Release} /\ at' = "fetch" /\ todo' = Files
             /\ handling' = handling
    BY <2>1, <2>2 DEF CacheSound, Filling, Emptying, Release
  <2>3. CASE EndHandling /\ present' = present
    BY <2>1, <2>3 DEF CacheSound, Filling, Emptying, EndHandling
  <2> QED
    BY <1>1, <2>2, <2>3 DEF DownloadBegins, Done, Transient
<1>2. ASSUME NEW f \in Files, Fetch(f) PROVE CacheSound'
  <2>1. /\ at = "fetch" /\ at' = "verify" /\ f \in todo
        /\ UNCHANGED <<present, handling, todo>>
        /\ \E content \in Fetched : files' = [files EXCEPT ![Release][f] = content]
    BY <1>2 DEF Fetch
  <2> QED
    BY <2>1 DEF CacheSound, Filling, Emptying, Release, AgentInv, DiskTypes
<1>3. CASE FetchFails
  BY <1>3, RemovedIsSound DEF FetchFails, Done, Transient
<1>4. CASE Verify
  <2>1. at = "verify"
    BY <1>4 DEF Verify
  <2>2. CASE /\ Matches(item) /\ todo' = todo \ {item} /\ at' = "fetch"
             /\ UNCHANGED <<cacheVars, handling>>
    BY <2>1, <2>2 DEF CacheSound, Filling, Emptying, Release, Matches, cacheVars
  <2>3. CASE RemoveVersion(Release) /\ EndHandling
    BY <2>1, <2>3, RemovedIsSound
  <2> QED
    BY <1>4, <2>2, <2>3 DEF Verify, Done, Transient
<1>5. CASE DownloadEnds
  <2>1. at = "fetch" /\ todo = {} /\ UNCHANGED cacheVars /\ at' = "idle"
    BY <1>5 DEF DownloadEnds, Done, EndHandling
  <2>2. ASSUME NEW r \in Releases, Filling(r) PROVE r \in present /\ files[r] = AllGood
    BY <2>1, <2>2 DEF CacheSound, AgentInv, DiskTypes
  <2> QED
    BY <2>1, <2>2 DEF CacheSound, Filling, Emptying, cacheVars
<1> QED
  BY <1>1, <1>2, <1>3, <1>4, <1>5

\* Between two releases the cleaning holds nothing half removed.
LEMMA CleanKeepsCache ==
  ASSUME CacheIsSafe, AgentInv, CacheSound,
         \/ CleanBegins \/ CleanListFails \/ CleanDirectory \/ CleanEnds
         \/ \E r \in Releases : CleanNext(r)
         \/ \E f \in Files : CleanFile(f)
  PROVE  CacheSound'
<1> USE DEF CacheSound, Filling, Emptying, NoFiles, AllGood
<1>1. CASE CleanBegins \/ CleanListFails \/ CleanEnds
  <2>1. at \in {"dispatch", "clean"} /\ at' \in {"clean", "idle"} /\ UNCHANGED cacheVars
    BY <1>1 DEF CleanBegins, CleanListFails, CleanEnds, IsCommand, Done, Transient, EndHandling
  <2> QED
    BY <2>1 DEF cacheVars
<1>2. ASSUME NEW r \in Releases, CleanNext(r) PROVE CacheSound'
  BY <1>2 DEF CleanNext, cacheVars
<1>3. ASSUME NEW f \in Files, CleanFile(f) PROVE CacheSound'
  BY <1>3 DEF CleanFile, workVars, AgentInv, DiskTypes
<1>4. CASE CleanDirectory
  <2>1. /\ at = "removing" /\ item \in Releases /\ at' = "clean"
        /\ present' = present \ {item} /\ files' = [files EXCEPT ![item] = NoFiles]
    BY <1>4 DEF CleanDirectory, CacheIsSafe, AgentInv, WorkInv, LoopData
  <2>2. ASSUME NEW r \in Releases PROVE files'[r] = IF r \in present' THEN AllGood ELSE NoFiles
    BY <2>1 DEF AgentInv, DiskTypes
  <2> QED
    BY <2>1, <2>2
<1> QED
  BY <1>1, <1>2, <1>3, <1>4

LEMMA CacheStepSound ==
  ASSUME CacheIsSafe, AgentInv, CacheSound, [AgentNext]_agentVars
  PROVE  CacheSound'
<1>1. ASSUME at \notin {"fetch", "verify", "removing"}, at' \notin {"fetch", "verify", "removing"},
             UNCHANGED cacheVars
      PROVE  CacheSound'
  BY <1>1 DEF CacheSound, Filling, Emptying, cacheVars
<1>2. CASE \/ ApplyVersion \/ RollbackVersion \/ RestartService \/ EngineReturns
           \/ Rejected \/ RebootDevice \/ UpdateConfiguration \/ CurrentStatus
  <2>1. at \in {"dispatch", "engine"} /\ at' \in {"engine", "idle"} /\ UNCHANGED cacheVars
    BY <1>2
    DEF ApplyVersion, RollbackVersion, RestartService, CallsEngine, EngineReturns, Rejected,
        RebootDevice, UpdateConfiguration, CurrentStatus, IsCommand, Done, Transient, EndHandling
  <2> QED
    BY <1>1, <2>1
<1>3. CASE EngineWorks
  BY <1>1, <1>3 DEF EngineWorks, EngineInstalls, EngineRemoves, Applying, workVars
<1>4. CASE AgentDies
  <2>1. at \notin {"fetch", "verify", "removing"} /\ at' = "idle" /\ UNCHANGED cacheVars
    BY <1>4 DEF AgentDies, EndHandling, CacheIsSafe, cacheVars
  <2> QED
    BY <1>1, <2>1
<1>5. ASSUME NEW m \in Messages, Receive(m) PROVE CacheSound'
  BY <1>1, <1>5 DEF Receive
<1>6. ASSUME (\E m \in Messages : Send(m)) \/ UNCHANGED agentVars PROVE CacheSound'
  BY <1>6 DEF Send, agentVars, cacheVars, workVars, CacheSound, Filling, Emptying, Release
<1> QED
  BY <1>2, <1>3, <1>4, <1>5, <1>6, DownloadKeepsCache, CleanKeepsCache
  DEF AgentNext, AgentStep, CacheStep

\* What the engine installs is a directory no command is filling or emptying.
LEMMA InstallsVerified ==
  ASSUME AgentInv, SafeInv, [AgentNext]_agentVars
  PROVE  VerifiedBeforeInstall'
<1> USE DEF SafeInv, AgentInv, DiskTypes
<1>1. CASE EngineInstalls
  <2>1. at = "engine" /\ files[Release] # NoFiles
        /\ installed' = [installed EXCEPT ![Release] = files[Release]]
    BY <1>1 DEF EngineInstalls, Applying
  <2>2. Release \in Releases
    BY <2>1, ReleaseType DEF WorkInv
  <2>3. files[Release] = AllGood
    BY <2>1, <2>2 DEF CacheSound, Filling, Emptying
  <2> QED
    BY <2>1, <2>2, <2>3 DEF VerifiedBeforeInstall, AllGood
<1>2. ASSUME NEW r \in Releases, EngineRemoves(r) PROVE VerifiedBeforeInstall'
  BY <1>2 DEF EngineRemoves, VerifiedBeforeInstall
<1>3. ASSUME NEW r \in Releases, Edits(r) PROVE VerifiedBeforeInstall'
  BY <1>3 DEF Edits, VerifiedBeforeInstall, NoFiles
<1>4. ASSUME UNCHANGED installed PROVE VerifiedBeforeInstall'
  BY <1>4 DEF VerifiedBeforeInstall
<1>5. \/ UNCHANGED installed \/ EngineInstalls
      \/ \E r \in Releases : EngineRemoves(r) \/ Edits(r)
  <2>1. CASE CacheStep
    BY <2>1
    DEF CacheStep, DownloadBegins, Fetch, FetchFails, Verify, DownloadEnds, CleanBegins,
        CleanListFails, CleanNext, CleanFile, CleanDirectory, CleanEnds
  <2>2. CASE ApplyVersion \/ RollbackVersion \/ RestartService \/ EngineWorks \/ EngineReturns
    BY <2>2
    DEF ApplyVersion, RollbackVersion, RestartService, EngineWorks, EngineReturns
  <2>3. CASE Rejected \/ RebootDevice \/ UpdateConfiguration \/ CurrentStatus
    BY <2>3 DEF Rejected, RebootDevice, UpdateConfiguration, CurrentStatus
  <2>4. CASE AgentDies \/ (\E m \in Messages : Send(m) \/ Receive(m)) \/ UNCHANGED agentVars
    BY <2>4 DEF AgentDies, Send, Receive, agentVars
  <2> QED
    BY <2>1, <2>2, <2>3, <2>4 DEF AgentNext, AgentStep
<1> QED
  BY <1>1, <1>2, <1>3, <1>4, <1>5

LEMMA SafeInitially == AgentInit => SafeInv
  BY DEF AgentInit, SafeInv, CacheSound, Filling, Emptying, VerifiedBeforeInstall

LEMMA SafeInvStep ==
  ASSUME CacheIsSafe
  PROVE  AgentInv /\ SafeInv /\ [AgentNext]_agentVars => SafeInv'
<1> SUFFICES ASSUME AgentInv, SafeInv, [AgentNext]_agentVars PROVE SafeInv'
  OBVIOUS
<1>1. CacheSound'
  BY CacheStepSound DEF SafeInv
<1> QED
  BY <1>1, InstallsVerified DEF SafeInv

\* Only complete, verified releases are ever installed, for any commands in any
\* order, any failures of the store and any content it returns.
THEOREM OnlyVerifiedInstalled == ASSUME CacheIsSafe PROVE AgentSpec => []VerifiedBeforeInstall
<1>1. AgentInv /\ SafeInv /\ [AgentNext]_agentVars => SafeInv'
  BY SafeInvStep
<1>2. SafeInv => VerifiedBeforeInstall
  BY DEF SafeInv
<1> QED
  BY <1>1, <1>2, AgentInitially, AgentInvStep, SafeInitially, PTL DEF AgentSpec

\* Between commands every version directory is complete and verified.
THEOREM CacheStaysVerified == ASSUME CacheIsSafe PROVE AgentSpec => []CacheVerified
<1>1. AgentInv /\ SafeInv /\ [AgentNext]_agentVars => SafeInv'
  BY SafeInvStep
<1>2. SafeInv => CacheVerified
  BY DEF SafeInv, CacheSound, Filling, Emptying, CacheVerified
<1> QED
  BY <1>1, <1>2, AgentInitially, AgentInvStep, SafeInitially, PTL DEF AgentSpec
=============================================================================
