---------------------------- MODULE RestApiProofs ----------------------------
(***************************************************************************)
(* Theorems about RestApi for every set of queues, requests and polls, any *)
(* two assignments of groups, any limits and, but for clients that go away *)
(* where a theorem says so, any faults.                                    *)
(***************************************************************************)
EXTENDS RestApi, FiniteSetTheorems, TLAPS

\* A goroutine, and so a message, exists only for a queue of the group asked for.
Addressed ==
  \A r \in Requests, q \in Queues :
    /\ sends[r][q] # "none" => asked[r] # "none" /\ q \in QueuesForGroup(asked[r])
    /\ r \in inbox[q] => sends[r][q] # "none"

\* A poll that is not under way holds no reports.
NothingHeld == \A c \in Polls : polling[c] = "idle" => batch[c] = {}

ApiInv == ApiTypeOK /\ Addressed /\ NothingHeld

\* The goroutines of each request that send at a time have a slot each.
WithinSlots == \A r \in Requests : Cardinality(Sending(r)) <= MaxConcurrentSends

\* What remains of ApiTypeOK.
Types ==
  /\ asked \in [Requests -> Groups \cup {AnyGroup, "none"}]
  /\ sends \in [Requests -> [Queues -> SendStates]]
  /\ response \in [Requests -> {"none", "accepted", "refused", "all_failed"}]
  /\ inbox \in [Queues -> SUBSET Requests]
  /\ executed \subseteq Reports /\ reported \subseteq Reports
  /\ results \subseteq reported /\ hidden \subseteq reported
  /\ batch \in [Polls -> SUBSET reported]
  /\ \A c \in Polls : Cardinality(batch[c]) <= BatchSize
  /\ polling \in [Polls -> {"idle", "decoded", "deleted"}]
  /\ shown \subseteq reported

LEMMA TypesAndSlots ==
  /\ ApiTypeOK <=> Types /\ WithinSlots
  /\ ApiTypeOK' <=> Types' /\ WithinSlots'
  BY DEF ApiTypeOK, Types, WithinSlots, Sending

-----------------------------------------------------------------------------
\* The goroutines with a slot are finitely many.
LEMMA SendingFinite ==
  ASSUME NEW r \in Requests
  PROVE  IsFiniteSet(Sending(r)) /\ Cardinality(Sending(r)) \in Nat
<1>1. Sending(r) \in SUBSET Queues
  BY DEF Sending
<1> QED
  BY <1>1, FleetAssumption, FS_Subset, FS_CardinalityType

\* There are never more slots than maxConcurrentSends.
LEMMA SlotsBounded ==
  ASSUME NEW r \in Requests, Targets(r) \subseteq Queues
  PROVE  Slots(r) \in Nat /\ Slots(r) <= MaxConcurrentSends
<1>1. Cardinality(Targets(r)) \in Nat
  BY FleetAssumption, FS_Subset, FS_CardinalityType
<1> QED
  BY <1>1, LimitsAssumption DEF Slots

\* A request whose senders are among the old ones keeps within its slots.
LEMMA FewerSending ==
  ASSUME NEW r \in Requests, Sending(r)' \subseteq Sending(r),
         Cardinality(Sending(r)) <= MaxConcurrentSends
  PROVE  Cardinality(Sending(r)') <= MaxConcurrentSends
<1>1. Sending(r)' \in SUBSET Sending(r)
  OBVIOUS
<1>2. IsFiniteSet(Sending(r)') /\ Cardinality(Sending(r)') <= Cardinality(Sending(r))
  BY <1>1, SendingFinite, FS_Subset
<1>3. Cardinality(Sending(r)') \in Nat
  BY <1>2, FS_CardinalityType
<1> QED
  BY <1>2, <1>3, SendingFinite, LimitsAssumption

LEMMA ApiInitially == ApiInit => ApiInv
<1> SUFFICES ASSUME ApiInit PROVE ApiInv
  OBVIOUS
<1> USE DEF ApiInit
<1>1. Types
  BY FS_EmptySet, LimitsAssumption DEF Types, SendStates
<1>2. ASSUME NEW r \in Requests PROVE Cardinality(Sending(r)) <= MaxConcurrentSends
  <2>1. Sending(r) = {}
    BY <1>2 DEF Sending
  <2> QED
    BY <2>1, FS_EmptySet, LimitsAssumption
<1> QED
  BY <1>1, <1>2, TypesAndSlots DEF ApiInv, WithinSlots, Addressed, NothingHeld

\* A request arrives: its goroutines are for queues of its group, and wait.
LEMMA PublishPreserves ==
  ASSUME ApiInv, NEW r \in Requests, NEW group \in Groups \cup {AnyGroup}, Publish(r, group)
  PROVE  ApiInv'
<1> USE TypesAndSlots DEF ApiInv
<1>1. Types'
  BY DEF Publish, Types, SendStates, deviceVars, resultVars
<1>2. ASSUME NEW s \in Requests PROVE Cardinality(Sending(s)') <= MaxConcurrentSends
  <2>1. Sending(s)' \subseteq Sending(s)
    BY DEF Publish, Sending, Types
  <2> QED
    BY <2>1, FewerSending DEF WithinSlots
<1>3. Addressed'
  BY GroupsAssumption DEF Publish, Addressed, Types, QueuesForGroup, deviceVars
<1> QED
  BY <1>1, <1>2, <1>3 DEF WithinSlots, NothingHeld, Publish, resultVars

\* A goroutine takes a slot only while one is free, ...
LEMMA AcquirePreserves ==
  ASSUME ApiInv, NEW r \in Requests, NEW q \in Queues, Acquire(r, q)
  PROVE  ApiInv'
<1> USE TypesAndSlots DEF ApiInv
<1>1. Types'
  BY DEF Acquire, Types, SendStates, deviceVars, resultVars
<1>2. ASSUME NEW s \in Requests PROVE Cardinality(Sending(s)') <= MaxConcurrentSends
  <2>1. CASE s = r
    <3>1. Sending(r)' = Sending(r) \cup {q}
      BY DEF Acquire, Sending, Types
    <3>2. Cardinality(Sending(r)) < Slots(r)
      BY DEF Acquire
    <3>3. Targets(r) \subseteq Queues
      BY DEF Targets
    <3>4. q \notin Sending(r)
      BY DEF Acquire, Sending
    <3>5. Cardinality(Sending(r) \cup {q}) = Cardinality(Sending(r)) + 1
      BY <3>4, SendingFinite, FS_AddElement
    <3> QED
      BY <2>1, <3>1, <3>2, <3>3, <3>5, SlotsBounded, SendingFinite, LimitsAssumption
  <2>2. CASE s # r
    <3>1. Sending(s)' \subseteq Sending(s)
      BY <2>2 DEF Acquire, Sending, Types
    <3> QED
      BY <3>1, FewerSending DEF WithinSlots
  <2> QED
    BY <2>1, <2>2
<1>3. Addressed'
  BY DEF Acquire, Addressed, Types, QueuesForGroup, deviceVars
<1> QED
  BY <1>1, <1>2, <1>3 DEF WithinSlots, NothingHeld, Acquire, resultVars

\* ... and gives it back however its send ends.
LEMMA SendPreserves ==
  ASSUME ApiInv, NEW r \in Requests, NEW q \in Queues, SendOk(r, q) \/ SendFails(r, q)
  PROVE  ApiInv'
<1>1. PICK state \in {"sent", "error"}, to \in {inbox, [inbox EXCEPT ![q] = @ \cup {r}]} :
        /\ sends[r][q] = "sending"
        /\ sends' = [sends EXCEPT ![r][q] = state]
        /\ inbox' = to
        /\ UNCHANGED <<asked, response, executed, reported, resultVars>>
  BY DEF SendOk, SendFails
<1> USE TypesAndSlots DEF ApiInv
<1>2. to \in [Queues -> SUBSET Requests]
  BY DEF Types
<1>3. Types'
  BY <1>1, <1>2 DEF Types, SendStates, resultVars
<1>4. ASSUME NEW s \in Requests PROVE Cardinality(Sending(s)') <= MaxConcurrentSends
  <2>1. Sending(s)' \subseteq Sending(s)
    BY <1>1 DEF Sending, Types
  <2> QED
    BY <2>1, FewerSending DEF WithinSlots
<1>5. ASSUME NEW s \in Requests, NEW p \in Queues, s \in to[p]
      PROVE  s \in inbox[p] \/ (s = r /\ p = q)
  BY <1>5 DEF Types
<1>6. Addressed'
  BY <1>1, <1>5 DEF Addressed, Types, QueuesForGroup
<1> QED
  BY <1>1, <1>3, <1>4, <1>6 DEF WithinSlots, NothingHeld, resultVars

\* No other step moves a goroutine or gives a device a message.
LEMMA FanOutKept ==
  ASSUME ApiInv, UNCHANGED <<asked, sends>>,
         \A q \in Queues : inbox'[q] \subseteq inbox[q]
  PROVE  WithinSlots' /\ Addressed'
<1>1. ASSUME NEW r \in Requests PROVE Sending(r)' \subseteq Sending(r)
  BY DEF Sending
<1>2. WithinSlots'
  BY <1>1, TypesAndSlots, FewerSending DEF ApiInv, WithinSlots
<1>3. Addressed'
  BY DEF ApiInv, Addressed, QueuesForGroup
<1> QED
  BY <1>2, <1>3

LEMMA DevicePreserves ==
  ASSUME ApiInv, NEW q \in Queues, NEW r \in Requests, DeviceHandles(q, r)
  PROVE  ApiInv'
<1> USE TypesAndSlots DEF ApiInv
<1>1. /\ inbox' \in [Queues -> SUBSET Requests]
      /\ \A p \in Queues : inbox'[p] \subseteq inbox[p]
  <2>1. inbox \in [Queues -> SUBSET Requests]
    BY DEF Types
  <2>2. inbox' = inbox \/ inbox' = [inbox EXCEPT ![q] = @ \ {r}]
    BY DEF DeviceHandles
  <2> QED
    BY <2>1, <2>2
<1>2. /\ executed' \subseteq Reports /\ reported' \subseteq Reports
      /\ reported \subseteq reported' /\ results' \subseteq reported'
  BY DEF DeviceHandles, Types, Reports
<1>3. batch' \in [Polls -> SUBSET reported']
  BY <1>2 DEF DeviceHandles, Types
<1>4. Types'
  BY <1>1, <1>2, <1>3 DEF DeviceHandles, Types, fanoutVars
<1>5. WithinSlots' /\ Addressed'
  BY <1>1, FanOutKept DEF DeviceHandles, fanoutVars
<1> QED
  BY <1>4, <1>5 DEF NothingHeld, DeviceHandles

\* A poll takes at most a batch, and holds it until its answer is written.
LEMMA PollPreserves ==
  ASSUME ApiInv, NEW c \in Polls, ReceiveReports(c) \/ DeleteReports(c) \/ ShowReports(c)
  PROVE  ApiInv'
<1> USE TypesAndSlots DEF ApiInv
<1>1. WithinSlots' /\ Addressed'
  BY FanOutKept DEF ReceiveReports, DeleteReports, ShowReports, fanoutVars, deviceVars
<1>2. CASE ReceiveReports(c)
  <2>1. PICK some \in SUBSET (results \ hidden) :
          /\ Cardinality(some) <= BatchSize
          /\ batch' = [batch EXCEPT ![c] = some]
          /\ hidden' = hidden \cup some
    BY <1>2 DEF ReceiveReports
  <2>2. Types'
    BY <1>2, <2>1 DEF ReceiveReports, Types, fanoutVars, deviceVars
  <2>3. NothingHeld'
    BY <1>2, <2>1 DEF ReceiveReports, NothingHeld, Types
  <2> QED
    BY <1>1, <2>2, <2>3
<1>3. CASE DeleteReports(c)
  <2>1. Types'
    BY <1>3 DEF DeleteReports, Types, fanoutVars, deviceVars
  <2>2. NothingHeld'
    BY <1>3 DEF DeleteReports, NothingHeld, Types
  <2> QED
    BY <1>1, <2>1, <2>2
<1>4. CASE ShowReports(c)
  <2>1. shown' \subseteq reported
    BY <1>4 DEF ShowReports, Types
  <2>2. Types'
    BY <1>4, <2>1, FS_EmptySet, LimitsAssumption
    DEF ShowReports, Types, fanoutVars, deviceVars
  <2>3. NothingHeld'
    BY <1>4 DEF ShowReports, NothingHeld, Types
  <2> QED
    BY <1>1, <2>2, <2>3
<1> QED
  BY <1>2, <1>3, <1>4

LEMMA ApiInvStep == ApiInv /\ [ApiNext]_apiVars => ApiInv'
<1> SUFFICES ASSUME ApiInv, [ApiNext]_apiVars PROVE ApiInv'
  OBVIOUS
<1> USE TypesAndSlots DEF ApiInv
<1>1. ASSUME NEW r \in Requests, Respond(r) PROVE ApiInv'
  <2>1. WithinSlots' /\ Addressed'
    BY <1>1, FanOutKept DEF Respond, deviceVars
  <2>2. Types'
    BY <1>1 DEF Respond, Types, deviceVars, resultVars
  <2> QED
    BY <1>1, <2>1, <2>2 DEF NothingHeld, Respond, resultVars
<1>2. ASSUME NEW m \in Reports, Reappears(m) PROVE ApiInv'
  <2>1. WithinSlots' /\ Addressed'
    BY <1>2, FanOutKept DEF Reappears, fanoutVars, deviceVars
  <2>2. Types'
    BY <1>2 DEF Reappears, Types, fanoutVars, deviceVars
  <2> QED
    BY <1>2, <2>1, <2>2 DEF NothingHeld, Reappears
<1>3. CASE UNCHANGED apiVars
  <2>1. WithinSlots' /\ Addressed'
    BY <1>3, FanOutKept DEF apiVars, fanoutVars, deviceVars
  <2> QED
    BY <1>3, <2>1 DEF NothingHeld, Types, apiVars, fanoutVars, deviceVars, resultVars
<1> QED
  BY <1>1, <1>2, <1>3, PublishPreserves, AcquirePreserves, SendPreserves,
     DevicePreserves, PollPreserves
  DEF ApiNext, FanOut

\* Whatever requests come at once and however their sends end, no request has
\* more than MaxConcurrentSends goroutines sending, and no poll hands out more
\* than BatchSize reports, all of them ones a device has sent.
THEOREM ApiTypes == ApiSpec => []ApiTypeOK
<1>1. ApiSpec => []ApiInv
  BY ApiInitially, ApiInvStep, PTL DEF ApiSpec
<1>2. ApiInv => ApiTypeOK
  BY DEF ApiInv
<1> QED
  BY <1>1, <1>2, PTL

-----------------------------------------------------------------------------
\* What a device executes was addressed to it, and the request stays what it
\* was when it arrived.
LEMMA OwnGroupStep == ApiInv /\ ExecutesOwnGroup /\ [ApiNext]_apiVars => ExecutesOwnGroup'
<1> SUFFICES ASSUME ApiInv, ExecutesOwnGroup, [ApiNext]_apiVars PROVE ExecutesOwnGroup'
  OBVIOUS
<1> USE TypesAndSlots DEF ApiInv
<1>1. ASSUME NEW r \in Requests, NEW group \in Groups \cup {AnyGroup}, Publish(r, group)
      PROVE  ExecutesOwnGroup'
  <2>1. asked[r] = "none" /\ asked' = [asked EXCEPT ![r] = group] /\ executed' = executed
    BY <1>1 DEF Publish, deviceVars
  <2>2. \A q \in Queues : <<r, q>> \notin executed
    BY <2>1, GroupsAssumption DEF ExecutesOwnGroup
  <2> QED
    BY <2>1, <2>2 DEF ExecutesOwnGroup, Types
<1>2. ASSUME NEW q \in Queues, NEW r \in Requests, DeviceHandles(q, r)
      PROVE  ExecutesOwnGroup'
  <2>1. /\ asked' = asked
        /\ \A s \in Requests, p \in Queues : <<s, p>> \in executed' =>
             <<s, p>> \in executed \/ (s = r /\ p = q /\ Accepts(q, r))
    BY <1>2 DEF DeviceHandles, fanoutVars
  <2>2. q \in QueuesForGroup(asked[r])
    BY <1>2 DEF DeviceHandles, Addressed
  <2>3. Accepts(q, r) =>
          asked[r] = AnyGroup \/ (asked[r] = DeviceGroup[q] /\ asked[r] = GroupOf[q])
    BY <2>2 DEF Accepts, QueuesForGroup
  <2> QED
    BY <2>1, <2>3 DEF ExecutesOwnGroup
<1>3. ASSUME UNCHANGED <<asked, executed>> PROVE ExecutesOwnGroup'
  BY <1>3 DEF ExecutesOwnGroup
<1> QED
  BY <1>1, <1>2, <1>3
  DEF ApiNext, FanOut, Respond, Acquire, SendOk, SendFails, ReceiveReports, DeleteReports,
      ShowReports, Reappears, apiVars, fanoutVars, deviceVars

\* A device executes a command only if it was sent to everyone, or to a group
\* both its own configuration and the registration of its queue name.
THEOREM OnlyOwnGroup == ApiSpec => []ExecutesOwnGroup
<1>1. ApiInit => ExecutesOwnGroup
  BY DEF ApiInit, ExecutesOwnGroup
<1> QED
  BY <1>1, ApiInitially, ApiInvStep, OwnGroupStep, PTL DEF ApiSpec

-----------------------------------------------------------------------------
\* The clients of the polls wait for their answer.
ClientsStay == "disconnect" \notin Faults

\* Where a report can be found.
Found == results \cup shown \cup UNION {batch[c] : c \in Polls}

\* A poll copies what it takes before it deletes it, and holds it until shown.
LEMMA PollKeepsReports ==
  ASSUME ClientsStay, ApiInv, NEW c \in Polls,
         ReceiveReports(c) \/ DeleteReports(c) \/ ShowReports(c)
  PROVE  /\ reported' = reported
         /\ \A m \in Found : m[2] \notin Undecodable => m \in Found'
<1> USE TypesAndSlots DEF ApiInv, Found
<1>1. CASE ReceiveReports(c)
  <2>1. batch[c] = {} /\ \A d \in Polls : batch[d] \subseteq batch'[d]
    BY <1>1 DEF ReceiveReports, NothingHeld, Types
  <2> QED
    BY <1>1, <2>1 DEF ReceiveReports, deviceVars
<1>2. CASE DeleteReports(c)
  <2>1. results \subseteq results' \cup batch[c]
    BY <1>2 DEF DeleteReports
  <2> QED
    BY <1>2, <2>1 DEF DeleteReports, deviceVars
<1>3. CASE ShowReports(c)
  <2>1. \A m \in batch[c] : m[2] \notin Undecodable => m \in shown'
    BY <1>3 DEF ShowReports, ClientsStay
  <2>2. \A d \in Polls : d = c \/ batch'[d] = batch[d]
    BY <1>3 DEF ShowReports, Types
  <2>3. results' = results /\ shown \subseteq shown' /\ reported' = reported
    BY <1>3 DEF ShowReports, deviceVars
  <2> QED
    BY <2>1, <2>2, <2>3
<1> QED
  BY <1>1, <1>2, <1>3

LEMMA ReportsKeptStep ==
  ASSUME ClientsStay
  PROVE  ApiInv /\ ReportsKept /\ [ApiNext]_apiVars => ReportsKept'
<1> SUFFICES ASSUME ApiInv, ReportsKept, [ApiNext]_apiVars PROVE ReportsKept'
  OBVIOUS
<1>1. ASSUME NEW c \in Polls, ReceiveReports(c) \/ DeleteReports(c) \/ ShowReports(c)
      PROVE  ReportsKept'
  BY <1>1, PollKeepsReports DEF ReportsKept, Found
<1>2. ASSUME NEW q \in Queues, NEW r \in Requests, DeviceHandles(q, r)
      PROVE  ReportsKept'
  <2>1. /\ results \subseteq results' /\ shown' = shown /\ batch' = batch
        /\ \A m \in reported' : m \in reported \/ m \in results'
    BY <1>2 DEF DeviceHandles
  <2> QED
    BY <2>1 DEF ReportsKept
<1>3. ASSUME UNCHANGED <<reported, results, batch, shown>> PROVE ReportsKept'
  BY <1>3 DEF ReportsKept
<1> QED
  BY <1>1, <1>2, <1>3
  DEF ApiNext, FanOut, Publish, Respond, Acquire, SendOk, SendFails, Reappears,
      apiVars, deviceVars, resultVars

\* While clients wait for their answers no decodable report is lost, whatever
\* else fails: deletions, redeliveries and any number of polls at once.
THEOREM NoReportLost == ASSUME ClientsStay PROVE ApiSpec => []ReportsKept
<1>1. ApiInit => ReportsKept
  BY DEF ApiInit, ReportsKept
<1>2. ApiInv /\ ReportsKept /\ [ApiNext]_apiVars => ReportsKept'
  BY ReportsKeptStep
<1> QED
  BY <1>1, <1>2, ApiInitially, ApiInvStep, PTL DEF ApiSpec

-----------------------------------------------------------------------------
\* The devices' reports reach the result queue.
ReportsArrive == "report" \notin Faults

\* A request is answered after it arrived, and with success only if a send
\* succeeded.
Answers ==
  \A r \in Requests :
    /\ response[r] # "none" => asked[r] # "none"
    /\ response[r] = "accepted" => \E q \in Queues : sends[r][q] = "sent"

\* What a queue took is in it until the device reports on it.
Delivered ==
  \A r \in Requests, q \in Queues :
    sends[r][q] = "sent" => r \in inbox[q] \/ <<r, q>> \in reported

AcceptedIsDelivered ==
  \A r \in Requests : response[r] = "accepted" =>
    \E q \in Queues : r \in inbox[q] \/ <<r, q>> \in reported

LEMMA AnswersStep == ApiInv /\ Answers /\ [ApiNext]_apiVars => Answers'
<1> SUFFICES ASSUME ApiInv, Answers, [ApiNext]_apiVars PROVE Answers'
  OBVIOUS
<1> USE TypesAndSlots DEF ApiInv
<1>1. ASSUME NEW r \in Requests, NEW group \in Groups \cup {AnyGroup}, Publish(r, group)
      PROVE  Answers'
  <2>1. asked[r] = "none" /\ asked' = [asked EXCEPT ![r] = group] /\ group # "none"
    BY <1>1, GroupsAssumption DEF Publish
  <2>2. /\ response' = response \/ response' = [response EXCEPT ![r] = "refused"]
        /\ \A s \in Requests : s # r => sends'[s] = sends[s]
    BY <1>1 DEF Publish, Types
  <2>3. response[r] = "none"
    BY <2>1 DEF Answers, Types
  <2> QED
    BY <2>1, <2>2, <2>3 DEF Answers, Types
<1>2. ASSUME NEW r \in Requests, Respond(r) PROVE Answers'
  <2>1. asked[r] # "none"
    BY <1>2 DEF Respond, Targets, Addressed
  <2> QED
    BY <1>2, <2>1 DEF Respond, Answers, Types
<1>3. ASSUME NEW r \in Requests, NEW q \in Queues,
             Acquire(r, q) \/ SendOk(r, q) \/ SendFails(r, q)
      PROVE  Answers'
  <2>1. PICK state \in SendStates :
          /\ sends[r][q] # "sent" /\ sends' = [sends EXCEPT ![r][q] = state]
          /\ asked' = asked /\ response' = response
    BY <1>3 DEF Acquire, SendOk, SendFails, SendStates
  <2>2. \A s \in Requests, p \in Queues : sends[s][p] = "sent" => sends'[s][p] = "sent"
    BY <2>1 DEF Types
  <2> QED
    BY <2>1, <2>2 DEF Answers
<1>4. ASSUME UNCHANGED fanoutVars PROVE Answers'
  BY <1>4 DEF Answers, fanoutVars
<1> QED
  BY <1>1, <1>2, <1>3, <1>4
  DEF ApiNext, FanOut, DeviceHandles, ReceiveReports, DeleteReports, ShowReports, Reappears,
      apiVars

LEMMA DeliveredStep ==
  ASSUME ReportsArrive
  PROVE  ApiInv /\ Delivered /\ [ApiNext]_apiVars => Delivered'
<1> SUFFICES ASSUME ApiInv, Delivered, [ApiNext]_apiVars PROVE Delivered'
  OBVIOUS
<1> USE TypesAndSlots DEF ApiInv
<1>1. ASSUME NEW r \in Requests, NEW group \in Groups \cup {AnyGroup}, Publish(r, group)
      PROVE  Delivered'
  <2>1. \A s \in Requests, q \in Queues : sends'[s][q] = "sent" => sends[s][q] = "sent"
    BY <1>1 DEF Publish, Types
  <2> QED
    BY <1>1, <2>1 DEF Publish, Delivered, deviceVars
<1>2. ASSUME NEW r \in Requests, NEW q \in Queues,
             Acquire(r, q) \/ SendOk(r, q) \/ SendFails(r, q)
      PROVE  Delivered'
  <2>1. /\ reported' = reported
        /\ \A s \in Requests, p \in Queues :
             sends'[s][p] = "sent" => sends[s][p] = "sent" \/ s \in inbox'[p]
    BY <1>2 DEF Acquire, SendOk, SendFails, Types, deviceVars
  <2>2. \A p \in Queues : inbox[p] \subseteq inbox'[p]
    BY <1>2 DEF Acquire, SendOk, SendFails, Types, deviceVars
  <2> QED
    BY <2>1, <2>2 DEF Delivered
<1>3. ASSUME NEW q \in Queues, NEW r \in Requests, DeviceHandles(q, r)
      PROVE  Delivered'
  <2>1. sends' = sends /\ reported' = reported \cup {<<r, q>>}
    BY <1>3 DEF DeviceHandles, fanoutVars, ReportsArrive
  <2>2. \A s \in Requests, p \in Queues :
          s \in inbox[p] => s \in inbox'[p] \/ (s = r /\ p = q)
    BY <1>3 DEF DeviceHandles, Types
  <2> QED
    BY <2>1, <2>2 DEF Delivered
<1>4. ASSUME UNCHANGED <<sends, inbox, reported>> PROVE Delivered'
  BY <1>4 DEF Delivered
<1> QED
  BY <1>1, <1>2, <1>3, <1>4
  DEF ApiNext, FanOut, Respond, ReceiveReports, DeleteReports, ShowReports, Reappears,
      apiVars, fanoutVars, deviceVars

\* A client is told of a success only if some device has the command in its
\* queue or has dealt with it, however many of the sends failed and however
\* often a queue delivers.
THEOREM SuccessIsDelivered == ASSUME ReportsArrive PROVE ApiSpec => []AcceptedIsDelivered
<1>1. ApiInit => Answers /\ Delivered
  BY DEF ApiInit, Answers, Delivered
<1>2. Answers /\ Delivered => AcceptedIsDelivered
  BY DEF Answers, Delivered, AcceptedIsDelivered
<1>3. ApiInv /\ Delivered /\ [ApiNext]_apiVars => Delivered'
  BY DeliveredStep
<1> QED
  BY <1>1, <1>2, <1>3, ApiInitially, ApiInvStep, AnswersStep, PTL DEF ApiSpec
=============================================================================
