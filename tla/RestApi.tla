------------------------------- MODULE RestApi -------------------------------
(***************************************************************************)
(* RestAPI/internal/service/deploy.go: the parallel fan-out of a command   *)
(* to the queues of a group, and the collection of the devices' reports.   *)
(* Requests run concurrently, one goroutine per target queue inside each.  *)
(*                                                                         *)
(* The devices are represented by what they do with a message: check its   *)
(* group, execute it and report (AgentService.tla models the rest).  SQS   *)
(* delivers at least once, in any order, and may accept a message whose    *)
(* sender sees an error.                                                   *)
(***************************************************************************)
EXTENDS Naturals, FiniteSets

CONSTANTS Queues,              \* the queues of DEVICE_QUEUES, one per device
          GroupOf,             \* the group each queue is registered with
          DeviceGroup,         \* the group in the configuration of each device
          Groups, AnyGroup,    \* AnyGroup: the empty string
          Requests,            \* the POST requests in play
          Polls,               \* the GET /api/v1/results requests in play
          MaxConcurrentSends,
          BatchSize,           \* RESULT_BATCH_SIZE
          Undecodable,         \* the devices whose reports do not decode
          Faults               \* the operations that may fail

ASSUME GroupsAssumption ==
  /\ AnyGroup \notin Groups
  /\ "none" \notin Groups \cup {AnyGroup}
  /\ GroupOf \in [Queues -> Groups \cup {AnyGroup}]
  /\ DeviceGroup \in [Queues -> Groups \cup {AnyGroup}]
ASSUME LimitsAssumption == MaxConcurrentSends \in Nat \ {0} /\ BatchSize \in Nat \ {0}
ASSUME FleetAssumption == IsFiniteSet(Queues) /\ Undecodable \subseteq Queues

VARIABLES
  asked,     \* the group a request names, "none" before it arrives
  sends,     \* sends[r][q]: where the goroutine for queue q of request r is
  response,  \* what the client of a request was told
  inbox,     \* the messages in each device queue
  executed,  \* the commands the devices executed: <<request, queue>>
  reported,  \* history: the reports sent, as <<request, queue>>
  results,   \* the result queue, received but not deleted reports included
  hidden,    \* those a receiver has and whose visibility timeout still runs
  batch,     \* what a poll has received
  polling,   \* where a poll is
  shown      \* the reports some client was given

fanoutVars == <<asked, sends, response>>
deviceVars == <<inbox, executed, reported>>
resultVars == <<results, hidden, batch, polling, shown>>
apiVars == <<fanoutVars, deviceVars, resultVars>>

Reports == Requests \X Queues
SendStates == {"none", "waiting", "sending", "sent", "error"}

ApiTypeOK ==
  /\ asked \in [Requests -> Groups \cup {AnyGroup, "none"}]
  /\ sends \in [Requests -> [Queues -> SendStates]]
  /\ \A r \in Requests :
       Cardinality({q \in Queues : sends[r][q] = "sending"}) <= MaxConcurrentSends
  /\ response \in [Requests -> {"none", "accepted", "refused", "all_failed"}]
  /\ inbox \in [Queues -> SUBSET Requests]
  /\ executed \subseteq Reports /\ reported \subseteq Reports
  /\ results \subseteq reported /\ hidden \subseteq reported
  /\ batch \in [Polls -> SUBSET reported]
  /\ \A c \in Polls : Cardinality(batch[c]) <= BatchSize
  /\ polling \in [Polls -> {"idle", "decoded", "deleted"}]
  /\ shown \subseteq reported

ApiInit ==
  /\ asked = [r \in Requests |-> "none"]
  /\ sends = [r \in Requests |-> [q \in Queues |-> "none"]]
  /\ response = [r \in Requests |-> "none"]
  /\ inbox = [q \in Queues |-> {}]
  /\ executed = {} /\ reported = {}
  /\ results = {} /\ hidden = {}
  /\ batch = [c \in Polls |-> {}] /\ polling = [c \in Polls |-> "idle"]
  /\ shown = {}

-----------------------------------------------------------------------------
(* Deploy() and Command(), and the publish() both end in                   *)

\* An empty group selects every registered queue.
QueuesForGroup(group) ==
  IF group = AnyGroup THEN Queues ELSE {q \in Queues : GroupOf[q] = group}

Targets(r) == {q \in Queues : sends[r][q] # "none"}

\* Faulty variant: a goroutine whose send failed keeps its slot.
SendingOrFailed(r) == {q \in Queues : sends[r][q] \in {"sending", "error"}}

\* The goroutines that hold a slot.
Sending(r) == {q \in Queues : sends[r][q] = "sending"}

\* The capacity of the channel `slots': min(maxConcurrentSends, len(targets)).
Slots(r) ==
  IF Cardinality(Targets(r)) < MaxConcurrentSends THEN Cardinality(Targets(r))
                                                  ELSE MaxConcurrentSends

\* One goroutine per target, all waiting for a slot.  A request is refused when
\* its command or payload is not valid, or when the group has no queue.
Publish(r, group) ==
  /\ asked[r] = "none"
  /\ asked' = [asked EXCEPT ![r] = group]
  /\ \/ response' = [response EXCEPT ![r] = "refused"] /\ UNCHANGED sends
     \/ /\ QueuesForGroup(group) # {}
        /\ sends' = [sends EXCEPT ![r] =
                           [q \in Queues |-> IF q \in QueuesForGroup(group) THEN "waiting" ELSE "none"]]
        /\ UNCHANGED response
  /\ UNCHANGED <<deviceVars, resultVars>>

Acquire(r, q) ==
  /\ sends[r][q] = "waiting"
  /\ Cardinality(Sending(r)) < Slots(r)
  /\ sends' = [sends EXCEPT ![r][q] = "sending"]
  /\ UNCHANGED <<asked, response, deviceVars, resultVars>>

\* Send(): the queue has the message.
SendOk(r, q) ==
  /\ sends[r][q] = "sending"
  /\ sends' = [sends EXCEPT ![r][q] = "sent"]
  /\ inbox' = [inbox EXCEPT ![q] = @ \cup {r}]
  /\ UNCHANGED <<asked, response, executed, reported, resultVars>>

\* An error: the send was refused, or timed out after the queue took it.
SendFails(r, q) ==
  /\ sends[r][q] = "sending" /\ "send" \in Faults
  /\ sends' = [sends EXCEPT ![r][q] = "error"]
  /\ inbox' \in {inbox, [inbox EXCEPT ![q] = @ \cup {r}]}
  /\ UNCHANGED <<asked, response, executed, reported, resultVars>>

\* waiter.Wait() returns; one accepted message is enough.
Respond(r) ==
  /\ response[r] = "none" /\ Targets(r) # {}
  /\ \A q \in Queues : sends[r][q] \notin {"waiting", "sending"}
  /\ response' = [response EXCEPT ![r] =
       IF \E q \in Queues : sends[r][q] = "sent" THEN "accepted" ELSE "all_failed"]
  /\ UNCHANGED <<asked, sends, deviceVars, resultVars>>

-----------------------------------------------------------------------------
(* The devices                                                             *)

\* Faulty variant: the device does not compare the groups.
AcceptsAny(q, r) == q \in Queues /\ r \in Requests

\* handle(): a message for another group is rejected and reported.
Accepts(q, r) == asked[r] \in {AnyGroup, DeviceGroup[q]}

\* A device handles a message of its queue, possibly one it had before.
DeviceHandles(q, r) ==
  /\ r \in inbox[q]
  /\ inbox' \in {inbox, [inbox EXCEPT ![q] = @ \ {r}]}
  /\ executed' = executed \cup IF Accepts(q, r) THEN {<<r, q>>} ELSE {}
  /\ \/ reported' = reported \cup {<<r, q>>} /\ results' = results \cup {<<r, q>>}
     \/ "report" \in Faults /\ UNCHANGED <<reported, results>>
  /\ UNCHANGED <<fanoutVars, hidden, batch, polling, shown>>

-----------------------------------------------------------------------------
(* Results()                                                               *)

\* Receive() and the decoding: at most BatchSize visible messages.
ReceiveReports(c) ==
  /\ polling[c] = "idle"
  /\ \E some \in SUBSET (results \ hidden) :
       /\ Cardinality(some) <= BatchSize
       /\ batch' = [batch EXCEPT ![c] = some]
       /\ hidden' = hidden \cup some
  /\ polling' = [polling EXCEPT ![c] = "decoded"]
  /\ UNCHANGED <<fanoutVars, deviceVars, results, shown>>

\* Faulty variant: an error of Delete() becomes the answer of the request.
DeleteReportsStrictly(c) ==
  /\ polling[c] = "decoded"
  /\ \E kept \in IF "delete" \in Faults THEN SUBSET batch[c] ELSE {{}} :
       /\ results' = results \ (batch[c] \ kept)
       /\ hidden' = hidden \ (batch[c] \ kept)
       /\ batch' = [batch EXCEPT ![c] = IF kept = {} THEN @ ELSE {}]
  /\ polling' = [polling EXCEPT ![c] = "deleted"]
  /\ UNCHANGED <<fanoutVars, deviceVars, shown>>

\* Delete(): whatever of the batch it fails to delete stays in the queue; the
\* error is only logged.
DeleteReports(c) ==
  /\ polling[c] = "decoded"
  /\ \E kept \in IF "delete" \in Faults THEN SUBSET batch[c] ELSE {{}} :
       /\ results' = results \ (batch[c] \ kept)
       /\ hidden' = hidden \ (batch[c] \ kept)
  /\ polling' = [polling EXCEPT ![c] = "deleted"]
  /\ UNCHANGED <<fanoutVars, deviceVars, batch, shown>>

\* The response is written: the reports that decode.  A client that has gone
\* gets nothing.
ShowReports(c) ==
  /\ polling[c] = "deleted"
  /\ \/ shown' = shown \cup {m \in batch[c] : m[2] \notin Undecodable}
     \/ "disconnect" \in Faults /\ UNCHANGED shown
  /\ polling' = [polling EXCEPT ![c] = "idle"] /\ batch' = [batch EXCEPT ![c] = {}]
  /\ UNCHANGED <<fanoutVars, deviceVars, results, hidden>>

\* A visibility timeout ends.
Reappears(m) ==
  /\ m \in hidden
  /\ hidden' = hidden \ {m}
  /\ UNCHANGED <<fanoutVars, deviceVars, results, batch, polling, shown>>

-----------------------------------------------------------------------------
\* The goroutines of request r.
FanOut(r) == Respond(r) \/ \E q \in Queues : Acquire(r, q) \/ SendOk(r, q) \/ SendFails(r, q)

ApiNext ==
  \/ \E r \in Requests : FanOut(r) \/ \E group \in Groups \cup {AnyGroup} : Publish(r, group)
  \/ \E q \in Queues, r \in Requests : DeviceHandles(q, r)
  \/ \E c \in Polls : ReceiveReports(c) \/ DeleteReports(c) \/ ShowReports(c)
  \/ \E m \in Reports : Reappears(m)

ApiSpec == ApiInit /\ [][ApiNext]_apiVars

\* Every goroutine of a request gets its turn; a send ends one way or another,
\* at the latest when the request's time budget is spent.
FairApiSpec == ApiSpec /\ \A r \in Requests : WF_apiVars(FanOut(r))

-----------------------------------------------------------------------------
(* Properties                                                              *)

\* A device executes a command only if it was sent to everyone or to a group
\* that the device itself and the queue's registration both name, even when
\* the two configurations disagree.
ExecutesOwnGroup ==
  \A r \in Requests, q \in Queues : <<r, q>> \in executed =>
    asked[r] = AnyGroup \/ (asked[r] = DeviceGroup[q] /\ asked[r] = GroupOf[q])

\* A report that decodes is in the result queue, in a response that is being
\* written, or was shown: a failing acknowledgement, a redelivery or two
\* polls at once lose none (for clients that stay for the answer).
ReportsKept ==
  \A m \in reported : m[2] \notin Undecodable =>
    m \in results \cup shown \cup UNION {batch[c] : c \in Polls}

\* Every request is answered: no goroutine waits for a slot for ever.
RequestsAnswered == \A r \in Requests : asked[r] # "none" ~> response[r] # "none"
=============================================================================
