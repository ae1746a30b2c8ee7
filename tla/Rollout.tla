------------------------------- MODULE Rollout -------------------------------
(***************************************************************************)
(* A rollout from end to end: invocations of the yirang CLI (DeployCLI),   *)
(* which may run at the same time, the artifact store, the REST API of     *)
(* RestApi.tla, and what the devices do with a download_version and an     *)
(* update_configuration.                                                   *)
(*                                                                         *)
(* Every invocation has a list of files of its own.  The source files may  *)
(* change while the CLI reads them.  The CLI may be interrupted, an upload *)
(* may fail half way, a request or its answer may get lost.  Messages are  *)
(* delivered more than once and in any order.  An agent may die while it   *)
(* downloads or cleans, and fail to remove what it should.                 *)
(***************************************************************************)
EXTENDS RestApi, Paths, Configuration

CONSTANTS Places,       \* the files of a release, by install_path
          FileLists,    \* the upload_file_lists in play, as sequences of Places
          Commands,     \* what the operators run: subset of Kinds
          Updates,      \* the [path, values] of update_configuration
          JsonObjects,  \* the JSON objects in play
          Document,     \* the configuration file of the active release
          MergeObject(_, _),   \* merge_object(): the document, then the values
          Settings,     \* the [file, arguments] the CLI is run with
          Seconds,      \* the times of a deployment, to the second
          NoTime,
          MaxEdits      \* bound: changes of a source file

Kinds == {"deploy", "clean_old_version", "update_configuration"}

ASSUME CommandsAssumption == Commands \subseteq Kinds
ASSUME SettingsAssumption ==
  /\ AnyGroup = ""
  /\ \A s \in Settings : TargetGroup(s.file, s.arguments) \in Groups \cup {AnyGroup}
\* build() refuses an empty list and two files of one name.
ASSUME FilesAssumption ==
  \A files \in FileLists :
    /\ files \in Seq(Places) /\ files # <<>>
    /\ \A m, n \in DOMAIN files : files[m] = files[n] => m = n
ASSUME UpdatesAssumption ==
  /\ Document \in JsonObjects
  /\ \A u \in Updates :
       /\ u.path \in Seq(STRING) /\ u.path # <<>>
       /\ \A json \in JsonObjects : MergeObject(json, u.values) \in JsonObjects
ASSUME BoundsAssumption ==
  "none" \notin Requests /\ NoTime \notin Seconds /\ MaxEdits \in Nat

VARIABLES
  source,     \* the content of each file
  objects,    \* the store: objects[id][place]; a release id is a second
  cli,        \* the CLI process of each request
  work,       \* the download a device is at, "none" if there is none
  cached,     \* the version directories of a device: cached[q][id][place]
  document    \* its configuration file

operatorVars == <<source, objects, cli>>
agentVars == <<work, cached, document>>
rolloutVars == <<apiVars, operatorVars, agentVars>>

Contents == 0..MaxEdits
Nothing == MaxEdits + 1      \* no object, no file
Torn == MaxEdits + 2         \* a file whose download broke off
Empty == [place \in Places |-> Nothing]

Phases == {"new", "start", "confirm", "hash", "upload", "post", "wait", "done"}

NoWork == [request |-> "none", next |-> 1]
NoUpdate == [path |-> <<"">>, values |-> <<>>]
NewProcess ==
  [phase |-> "new", kind |-> "none", loaded |-> FALSE, group |-> AnyGroup, files |-> <<>>,
   id |-> NoTime, hashes |-> Empty, next |-> 1, update |-> NoUpdate, outcome |-> "none"]

RolloutTypeOK ==
  /\ ApiTypeOK
  /\ source \in [Places -> Contents]
  /\ objects \in [Seconds -> [Places -> Contents \cup {Nothing}]]
  /\ \A r \in Requests :
       /\ cli[r].phase \in Phases
       /\ cli[r].group \in Groups \cup {AnyGroup}
       /\ cli[r].hashes \in [Places -> Contents \cup {Nothing}]
       /\ cli[r].next = 1 \/ cli[r].next \in DOMAIN cli[r].files
       /\ cli[r].outcome # "none" => cli[r].phase = "done"
       /\ cli[r].phase \in {"start", "confirm", "hash", "upload", "post"} => asked[r] = "none"
  /\ \A q \in Queues :
       /\ cached[q] \in [Seconds -> [Places -> Contents \cup {Nothing, Torn}]]
       /\ document[q] \in JsonObjects
       /\ work[q].request # "none" =>
            /\ work[q].request \in inbox[q]
            /\ work[q].next \in 1..Len(cli[work[q].request].files) + 1

RolloutInit ==
  /\ ApiInit
  /\ source = [place \in Places |-> 0]
  /\ objects = [id \in Seconds |-> Empty]
  /\ cli = [r \in Requests |-> NewProcess]
  /\ work = [q \in Queues |-> NoWork]
  /\ cached = [q \in Queues |-> [id \in Seconds |-> Empty]]
  /\ document = [q \in Queues |-> Document]

-----------------------------------------------------------------------------
(* The CLI                                                                 *)

In(r, phase) == cli[r].phase = phase

Becomes(r, phase) == cli' = [cli EXCEPT ![r].phase = phase, ![r].next = 1]

\* The process ends.  Of what it had in memory, only a request that was sent
\* stays in the world.
Exits(r, outcome) ==
  cli' = [cli EXCEPT ![r] =
            [(IF asked[r] = "none" THEN NewProcess ELSE @)
               EXCEPT !.phase = "done", !.outcome = outcome, !.next = 1]]

\* Nothing but the CLI's own memory changes.
CliOnly == UNCHANGED <<apiVars, source, objects, agentVars>>

\* The process starts with its arguments and a configuration file, each of
\* which may name the files of a deployment.  Whether the file was loaded is
\* asked for a destructive command alone.
Invoke(r) ==
  /\ In(r, "new")
  /\ \E kind \in Commands, s \in Settings :
       \E update \in IF kind = "update_configuration" THEN Updates ELSE {NoUpdate},
          files \in IF kind = "deploy" THEN FileLists ELSE {<<>>} :
         cli' = [cli EXCEPT ![r] =
                   [@ EXCEPT !.phase = "start", !.kind = kind, !.update = update,
                             !.files = files,
                             !.loaded = (kind = "clean_old_version" => ~LoadWarning(s.file)),
                             !.group = TargetGroup(s.file, s.arguments)]]
  /\ CliOnly

\* Nothing was sent yet and nothing will be: a setting is missing, an argument
\* is no good, a file cannot be read, a confirmation is refused.
GivesUp(r) ==
  /\ cli[r].phase \in {"start", "confirm", "hash"}
  /\ Exits(r, "failed")
  /\ CliOnly

\* deploy(): the release id is the second, by the clock of the machine at hand.
DeployBegins(r) ==
  /\ In(r, "start") /\ cli[r].kind = "deploy"
  /\ \E second \in Seconds : cli' = [cli EXCEPT ![r].phase = "hash", ![r].id = second]
  /\ CliOnly

\* The file a deployment is at.
Place(r) == cli[r].files[cli[r].next]
AtLast(r) == cli[r].next = Len(cli[r].files)

\* build(): the hash of each file of the list, ...
HashFile(r) ==
  /\ In(r, "hash")
  /\ cli' = [cli EXCEPT ![r].hashes[Place(r)] = source[Place(r)],
                        ![r].phase = IF AtLast(r) THEN "upload" ELSE @,
                        ![r].next = IF AtLast(r) THEN 1 ELSE @ + 1]
  /\ CliOnly

\* ... then upload_release(): each file, as it is by then.
UploadFile(r) ==
  /\ In(r, "upload")
  /\ objects' = [objects EXCEPT ![cli[r].id][Place(r)] = source[Place(r)]]
  /\ cli' = [cli EXCEPT ![r].phase = IF AtLast(r) THEN "post" ELSE @,
                        ![r].next = IF AtLast(r) THEN 1 ELSE @ + 1]
  /\ UNCHANGED <<apiVars, source, agentVars>>

\* Faulty variant: the request is sent all the same.
UploadFailsPosting(r) ==
  /\ In(r, "upload") /\ "upload" \in Faults
  /\ Becomes(r, "post")
  /\ CliOnly

\* The first error ends the command; the store may have the object.
UploadFails(r) ==
  /\ In(r, "upload") /\ "upload" \in Faults
  /\ objects' \in {objects, [objects EXCEPT ![cli[r].id][Place(r)] = source[Place(r)]]}
  /\ Exits(r, "failed")
  /\ UNCHANGED <<apiVars, source, agentVars>>

Destructive(r) == cli[r].kind = "clean_old_version"

\* Faulty variant: the scope is not looked at.
ScopeAny(r) == r \in Requests

\* Everyone is meant when the configuration says so, not when it is missing.
ScopeKnown(r) == cli[r].loaded \/ cli[r].group # AnyGroup

\* command(): a destructive one asks for confirmation first.
CommandBegins(r) ==
  /\ In(r, "start") /\ cli[r].kind # "deploy"
  /\ Destructive(r) => ScopeKnown(r)
  /\ Becomes(r, IF Destructive(r) THEN "confirm" ELSE "post")
  /\ CliOnly

\* require(): the token, or the operator's answer, is the command's name.
Confirmed(r) ==
  /\ In(r, "confirm")
  /\ Becomes(r, "post")
  /\ CliOnly

\* The server refuses a path that may leave the release directory.
Valid(r) == cli[r].kind = "update_configuration" => ServerAccepts(cli[r].update.path)

\* post(): the request reaches the server.
Posts(r) ==
  /\ In(r, "post")
  /\ Publish(r, cli[r].group)
  /\ response'[r] = "none" => Valid(r)
  /\ Becomes(r, "wait")
  /\ UNCHANGED <<source, objects, agentVars>>

\* It does not.
PostFails(r) ==
  /\ In(r, "post") /\ "network" \in Faults
  /\ Exits(r, "failed")
  /\ CliOnly

\* Faulty variant: any answer is a success.
AnyAnswer(r) == IF r \in Requests THEN "ok" ELSE "failed"

\* ok() of the status.
Answer(r) == IF response[r] = "accepted" THEN "ok" ELSE "failed"

Answered(r) ==
  /\ In(r, "wait") /\ response[r] # "none"
  /\ Exits(r, Answer(r))
  /\ CliOnly

\* CURLOPT_TIMEOUT, or the connection is lost: what the server does is unknown.
TimesOut(r) ==
  /\ In(r, "wait") /\ "network" \in Faults
  /\ Exits(r, "failed")
  /\ CliOnly

\* The operator, or the job the CLI runs in, interrupts it.
Killed(r) ==
  /\ cli[r].phase \notin {"new", "done"} /\ "kill" \in Faults
  /\ Exits(r, "failed")
  /\ CliOnly

\* What the CLI does by itself.
CliStep(r) ==
  \/ GivesUp(r) \/ CommandBegins(r) \/ Confirmed(r)
  \/ DeployBegins(r) \/ HashFile(r) \/ UploadFile(r) \/ UploadFails(r)
  \/ Posts(r) \/ PostFails(r) \/ Answered(r) \/ TimesOut(r)

-----------------------------------------------------------------------------
(* The devices                                                             *)

Idle(q) == work[q].request = "none"

\* A message of another group is refused and reported.
Rejects(q, r) ==
  /\ Idle(q) /\ ~Accepts(q, r)
  /\ DeviceHandles(q, r)
  /\ UNCHANGED <<operatorVars, agentVars>>

\* What is left of a directory when it cannot be removed, or not completely.
Left(directory, kept) == [place \in Places |-> IF place \in kept THEN directory[place] ELSE Nothing]

\* clean_old_version removes one version after the other and may get stuck, or
\* be cut off, in any of them.
PartlyCleaned(versions) ==
  {[id \in Seconds |-> IF id \in gone THEN Empty
                       ELSE IF id = stuck THEN Left(versions[id], kept) ELSE versions[id]] :
     gone \in SUBSET Seconds, stuck \in Seconds, kept \in SUBSET Places}

CleansVersions(q, r) ==
  /\ Idle(q) /\ Accepts(q, r) /\ cli[r].kind = "clean_old_version"
  /\ DeviceHandles(q, r)
  /\ \E left \in {[id \in Seconds |-> Empty]}
               \cup IF "remove" \in Faults THEN PartlyCleaned(cached[q]) ELSE {} :
       cached' = [cached EXCEPT ![q] = left]
  /\ UNCHANGED <<operatorVars, work, document>>

\* The agent dies over it: the message is still in the queue.
DiesCleaning(q, r) ==
  /\ "die" \in Faults
  /\ Idle(q) /\ r \in inbox[q] /\ Accepts(q, r) /\ cli[r].kind = "clean_old_version"
  /\ \E left \in PartlyCleaned(cached[q]) : cached' = [cached EXCEPT ![q] = left]
  /\ UNCHANGED <<apiVars, operatorVars, work, document>>

\* download_version: the artifacts of the message, one after the other, into a
\* directory that may have files already, ...
DownloadBegins(q, r) ==
  /\ Idle(q) /\ r \in inbox[q] /\ Accepts(q, r) /\ cli[r].kind = "deploy"
  /\ work' = [work EXCEPT ![q].request = r]
  /\ UNCHANGED <<apiVars, operatorVars, cached, document>>

Message(q) == cli[work[q].request]
Fetching(q) == ~Idle(q) /\ work[q].next <= Len(Message(q).files)
Fetched(q) == Message(q).files[work[q].next]
Object(q) == objects[Message(q).id][Fetched(q)]

\* Faulty variant: the file is not compared to the message.
MatchesAny(q) == Object(q) # Nothing

\* What is in the store now has the hash the message says.
Matches(q) == Object(q) = Message(q).hashes[Fetched(q)]

\* The version directory of the message, once the file at hand is this.
WithFile(q, file) == [cached[q][Message(q).id] EXCEPT ![Fetched(q)] = file]

\* ... each over the file that is there, and compared to the message.
FetchFile(q) ==
  /\ Fetching(q) /\ Matches(q)
  /\ cached' = [cached EXCEPT ![q][Message(q).id] = WithFile(q, Object(q))]
  /\ work' = [work EXCEPT ![q].next = @ + 1]
  /\ UNCHANGED <<apiVars, operatorVars, document>>

\* Faulty variant: the handler stays busy.
ReturnsBusy(q) ==
  /\ DeviceHandles(q, work[q].request)
  /\ work' = [work EXCEPT ![q].next = 1]

\* The handler returns, and what it returns is reported.
Returns(q) ==
  /\ DeviceHandles(q, work[q].request)
  /\ work' = [work EXCEPT ![q] = NoWork]

\* A fetch fails, or what it fetched is not what the message says ...
MayFail(q) == ~Matches(q) \/ "download" \in Faults

\* ... and leaves the file as it was, the one of the store, or a part of it.
Arriving(q) == {cached[q][Message(q).id][Fetched(q)], Object(q), Torn}

\* The whole version is then removed; an error of that is ignored.  (One that
\* could not be created is left as it is, like one that cannot be removed.)
DownloadFails(q) ==
  /\ Fetching(q) /\ MayFail(q)
  /\ \E file \in Arriving(q), kept \in IF "remove" \in Faults THEN SUBSET Places ELSE {{}} :
       cached' = [cached EXCEPT ![q][Message(q).id] = Left(WithFile(q, file), kept)]
  /\ Returns(q)
  /\ UNCHANGED <<operatorVars, document>>

DownloadEnds(q) ==
  /\ ~Idle(q) /\ work[q].next > Len(Message(q).files)
  /\ Returns(q)
  /\ UNCHANGED <<operatorVars, cached, document>>

\* The agent dies: between two files, in a fetch, or while it removes the
\* version after one that failed.  The message is still in the queue.
DiesDownloading(q) ==
  /\ ~Idle(q) /\ "die" \in Faults
  /\ \/ UNCHANGED cached
     \/ /\ Fetching(q)
        /\ \E file \in Arriving(q), kept \in IF MayFail(q) THEN SUBSET Places ELSE {Places} :
             cached' = [cached EXCEPT ![q][Message(q).id] = Left(WithFile(q, file), kept)]
  /\ work' = [work EXCEPT ![q] = NoWork]
  /\ UNCHANGED <<apiVars, operatorVars, document>>

\* update_configuration: merged into the file, unless the path is refused or
\* the file is not there.
UpdatesFile(q, r) ==
  /\ Idle(q) /\ Accepts(q, r) /\ cli[r].kind = "update_configuration"
  /\ DeviceHandles(q, r)
  /\ \/ /\ DeviceAccepts(cli[r].update.path)
        /\ document' = [document EXCEPT ![q] = MergeObject(@, cli[r].update.values)]
     \/ UNCHANGED document
  /\ UNCHANGED <<operatorVars, work, cached>>

DeviceStep(q) ==
  \/ \E r \in Requests :
       \/ Rejects(q, r) \/ UpdatesFile(q, r) \/ DownloadBegins(q, r)
       \/ CleansVersions(q, r) \/ DiesCleaning(q, r)
  \/ FetchFile(q) \/ DownloadFails(q) \/ DownloadEnds(q) \/ DiesDownloading(q)

-----------------------------------------------------------------------------
\* Someone builds one of the files anew.
Rebuilds(place) ==
  /\ source[place] < MaxEdits
  /\ source' = [source EXCEPT ![place] = @ + 1]
  /\ UNCHANGED <<apiVars, objects, cli, agentVars>>

ServerStep(r) == FanOut(r) /\ UNCHANGED <<operatorVars, agentVars>>

RolloutNext ==
  \/ \E r \in Requests : Invoke(r) \/ CliStep(r) \/ Killed(r) \/ ServerStep(r)
  \/ \E q \in Queues : DeviceStep(q)
  \/ \E place \in Places : Rebuilds(place)

RolloutSpec == RolloutInit /\ [][RolloutNext]_rolloutVars

-----------------------------------------------------------------------------
(* Properties                                                              *)

\* The deployments some device was told of.
Published == {r \in Requests : cli[r].kind = "deploy" /\ \E q \in Queues : r \in inbox[q]}

\* What is published can be downloaded: every file of it is in the store, even
\* when uploads fail, the CLI is interrupted, or two deployments of the same
\* second share an id.
PublishedIsStored ==
  \A r \in Published : \A n \in DOMAIN cli[r].files : objects[cli[r].id][cli[r].files[n]] # Nothing

\* A download that reports success has every file of its message in the version
\* directory, with the hash the message says: also when two deployments of one
\* second share the directory, an object was overwritten or its source rebuilt
\* meanwhile, and an earlier download or cleaning died, failed to remove what
\* it left, or was of another list.  (Files of another list may be there too.)
DownloadedAsPublished ==
  \A q \in Queues : ~Idle(q) /\ ~Fetching(q) =>
    \A n \in DOMAIN Message(q).files :
      LET place == Message(q).files[n]
      IN cached[q][Message(q).id][place] = Message(q).hashes[place]

\* No device removes its versions because the operator's configuration was
\* missing: a destructive command goes to everyone only when told to.
CleansAsMeant ==
  \A r \in Requests, q \in Queues : <<r, q>> \in executed /\ Destructive(r) =>
    cli[r].loaded \/ cli[r].group = DeviceGroup[q]

\* The operator is told of a success only when a device's queue has the
\* message, or the device has reported on it (in runs where reports arrive).
OkIsPublished ==
  \A r \in Requests : cli[r].outcome = "ok" =>
    \E q \in Queues : r \in inbox[q] \/ <<r, q>> \in reported

\* No update the server lets through leaves the release directory, or is
\* refused by the device because of its path.
PathsAgree ==
  \A r \in Requests, q \in Queues :
    r \in inbox[q] /\ cli[r].kind = "update_configuration" =>
      DeviceAccepts(cli[r].update.path) /\ StaysInside(cli[r].update.path)

\* The manifest says of each file what was uploaded: the hashes and the files
\* in the store are of the same point in time.
UploadedAsHashed ==
  \A r \in Requests : In(r, "post") /\ cli[r].kind = "deploy" =>
    \A n \in DOMAIN cli[r].files :
      LET place == cli[r].files[n] IN objects[cli[r].id][place] = cli[r].hashes[place]
=============================================================================
