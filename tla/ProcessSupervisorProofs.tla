----------------------- MODULE ProcessSupervisorProofs -----------------------
(***************************************************************************)
(* Theorems about ProcessSupervisor for every set of process ids and any   *)
(* failures of the system calls.                                           *)
(***************************************************************************)
EXTENDS ProcessSupervisor, TLAPS

\* A child is the process of the handle.  An id with a cached final status has
\* no child and no running instance.  Only the handle's process is adopted.
TableInv ==
  /\ \A p \in Pids : table[p].child =>
       handle.id = p /\ table[p].ours /\ table[p].life # "free"
  /\ \A p \in finished : ~table[p].child /\ ~(table[p].life = "running" /\ table[p].ours)
  /\ \A p \in adopted : handle.id = p /\ handle.token # 0 /\ ~table[p].child

\* The handle is the recorded one, and known in one of three ways.  A start
\* token tells the recorded process from any later one with its id.
RecordInv ==
  /\ handle # NoHandle =>
       /\ record = handle
       /\ handle.id \in finished \cup adopted \/ table[handle.id].child
  /\ record # NoHandle => record.token <= clock
  /\ record # NoHandle /\ record.token # 0 =>
       (table[record.id].ours <=> table[record.id].token = record.token)

\* stop() works on a child, or on an adopted process whose id is still its own
\* unless it changed hands since the last look.
CallInv ==
  /\ call = "adopting" => handle = NoHandle /\ record # NoHandle /\ record.token # 0
  /\ call \notin {"idle", "adopting"} =>
       /\ IF managed THEN handle.id \in adopted ELSE table[handle.id].child
       /\ managed /\ ~stale => table[handle.id].life = "free" \/ table[handle.id].ours
  /\ hit = "foreign" =>
       /\ call \notin {"idle", "adopting"} /\ managed /\ stale
       /\ ~table[handle.id].ours

AnswerInv == answer = "down" => handle # NoHandle /\ handle.id \in finished

SupervisorInv == SupervisorTypeOK /\ TableInv /\ RecordInv /\ CallInv /\ AnswerInv

-----------------------------------------------------------------------------
\* A handle or a record that is there names an id and a token.
LEMMA HandleType ==
  ASSUME SupervisorTypeOK
  PROVE  /\ handle # NoHandle => handle.id \in Pids /\ handle.token \in 0..MaxToken
         /\ record # NoHandle => record.id \in Pids /\ record.token \in 0..MaxToken
         /\ NoHandle.id \notin Pids
  BY PidsAssumption DEF SupervisorTypeOK, Handles, NoHandle

LEMMA EntryType ==
  ASSUME SupervisorTypeOK, NEW p \in Pids
  PROVE  /\ table[p] \in Entries
         /\ table[p].life = "free" => ~table[p].child /\ ~table[p].ours /\ table[p].token = 0
  BY DEF SupervisorTypeOK, Free

LEMMA SupervisorInitially == SupervisorInit => SupervisorInv
<1> SUFFICES ASSUME SupervisorInit PROVE SupervisorInv
  OBVIOUS
<1> USE DEF SupervisorInit
<1>1. SupervisorTypeOK
  <2>1. Free \in Entries
    BY TokenAssumption DEF Free, Entries
  <2>2. table \in [Pids -> Entries] /\ \A p \in Pids : table[p] = Free
    BY <2>1
  <2>3. handle \in Handles /\ record \in Handles
    BY DEF Handles
  <2>4. clock \in 0..MaxToken
    BY TokenAssumption
  <2> QED
    BY <2>2, <2>3, <2>4 DEF SupervisorTypeOK, CallSteps
<1>2. TableInv /\ RecordInv /\ CallInv /\ AnswerInv
  BY DEF TableInv, RecordInv, CallInv, AnswerInv, Free
<1> QED
  BY <1>1, <1>2 DEF SupervisorInv

-----------------------------------------------------------------------------
\* What a look at the process finds, and leaves behind.
LEMMA ObserveLemma ==
  ASSUME SupervisorInv, handle # NoHandle, Observe(handle), Seen(handle) = "down"
  PROVE  /\ clock' = clock
         /\ table' \in [Pids -> Entries]
         /\ \A p \in Pids : table'[p] = table[p] \/ (p = handle.id /\ table'[p] = Free)
         /\ \A p \in Pids : ~table'[p].child
         /\ finished' = finished \cup {handle.id} /\ adopted' = {}
         /\ ~(table'[handle.id].life = "running" /\ table'[handle.id].ours)
<1> USE DEF SupervisorInv
<1>1. handle.id \in Pids /\ record = handle
  BY HandleType DEF RecordInv
<1>2. Free \in Entries
  BY TokenAssumption DEF Free, Entries
<1>3. CASE handle.id \in finished
  BY <1>1, <1>3 DEF Observe, TableInv, kernelVars, memoVars, SupervisorTypeOK
<1>4. CASE handle.id \notin finished /\ table[handle.id].child
  BY <1>1, <1>2, <1>4 DEF Observe, TableInv, SupervisorTypeOK, Free
<1>5. CASE handle.id \notin finished /\ ~table[handle.id].child
  <2>1. handle.id \in adopted
    BY <1>5 DEF RecordInv
  <2>2. table[handle.id].life = "free" \/ table[handle.id].token # handle.token
    BY <1>5, <2>1 DEF Seen
  <2>3. ~(table[handle.id].life = "running" /\ table[handle.id].ours)
    BY <1>1, <2>1, <2>2 DEF RecordInv, TableInv
  <2> QED
    BY <1>1, <1>5, <2>1, <2>3 DEF Observe, TableInv, SupervisorTypeOK
<1> QED
  BY <1>3, <1>4, <1>5

LEMMA ObserveRunning ==
  ASSUME SupervisorInv, handle # NoHandle, Seen(handle) # "down"
  PROVE  /\ handle.id \notin finished /\ table[handle.id].ours
         /\ handle.id \in adopted \/ table[handle.id].child
         /\ Observe(handle) => UNCHANGED <<kernelVars, memoVars>>
<1> USE DEF SupervisorInv
<1>1. handle.id \in Pids /\ record = handle
  BY HandleType DEF RecordInv
<1>2. handle.id \notin finished
  BY DEF Seen
<1>3. table[handle.id].ours
  BY <1>1, <1>2 DEF Seen, RecordInv, TableInv
<1> QED
  BY <1>1, <1>2, <1>3 DEF Observe, RecordInv

\* stop() has seen the process down and forgets it.
LEMMA StoppedPreserves ==
  ASSUME SupervisorInv, handle # NoHandle, Observe(handle), Seen(handle) = "down", Stopped
  PROVE  SupervisorInv'
<1>1. /\ handle' = NoHandle /\ record' = NoHandle /\ call' = "idle" /\ managed' = FALSE
      /\ stale' = FALSE /\ hit' = "none" /\ answer' = "ok"
  BY DEF Stopped, Return
<1> USE DEF SupervisorInv
<1>2. SupervisorTypeOK'
  BY <1>1, ObserveLemma, HandleType DEF SupervisorTypeOK, Handles, CallSteps
<1>3. TableInv'
  <2>1. /\ \A p \in Pids : table'[p] = table[p] \/ (p = handle.id /\ table'[p] = Free)
        /\ \A p \in Pids : ~table'[p].child
        /\ finished' = finished \cup {handle.id} /\ adopted' = {}
        /\ ~(table'[handle.id].life = "running" /\ table'[handle.id].ours)
    BY ObserveLemma
  <2>2. finished \subseteq Pids /\ handle.id \in Pids
    BY HandleType DEF SupervisorTypeOK
  <2> QED
    BY <2>1, <2>2 DEF TableInv
<1>4. RecordInv' /\ CallInv' /\ AnswerInv'
  BY <1>1 DEF RecordInv, CallInv, AnswerInv
<1> QED
  BY <1>2, <1>3, <1>4

\* A call ends without a change of what the supervisor keeps.
LEMMA FailPreserves ==
  ASSUME SupervisorInv, NEW result \in {"none", "ok", "failed", "running"}, Return(result),
         UNCHANGED <<kernelVars, memoVars, callerVars>>
  PROVE  SupervisorInv'
<1> USE DEF SupervisorInv, Return, kernelVars, memoVars, callerVars
<1>1. SupervisorTypeOK'
  BY DEF SupervisorTypeOK, CallSteps
<1>2. TableInv' /\ RecordInv'
  BY DEF TableInv, RecordInv
<1>3. CallInv' /\ AnswerInv'
  BY DEF CallInv, AnswerInv
<1> QED
  BY <1>1, <1>2, <1>3

-----------------------------------------------------------------------------
\* start(): the new process is the child, and the record's token is its own.
LEMMA StartPreserves ==
  ASSUME SupervisorInv, NEW p \in Pids, Start(p)
  PROVE  SupervisorInv'
<1> USE TokenAssumption DEF SupervisorInv
<1>1. PICK token \in {clock + 1, 0} :
        /\ handle' = [id |-> p, token |-> token] /\ record' = handle'
        /\ clock' = clock + 1 /\ clock' \in 0..MaxToken
        /\ table' = [table EXCEPT ![p] = [life |-> "running", token |-> clock + 1,
                                         child |-> TRUE, ours |-> TRUE]]
        /\ finished' = finished \ {p} /\ adopted' = adopted \ {p}
        /\ call' = "idle" /\ managed' = FALSE /\ stale' = FALSE /\ hit' = "none"
        /\ answer' = "ok" /\ handle = NoHandle
  BY DEF Start, Return, SupervisorTypeOK
<1>2. /\ table' \in [Pids -> Entries]
      /\ \A q \in Pids : q = p \/ table'[q] = table[q]
      /\ table'[p].life = "running" /\ table'[p].token = clock + 1
      /\ table'[p].child /\ table'[p].ours
  BY <1>1 DEF SupervisorTypeOK, Entries
<1>3. handle' \in Handles /\ handle' # NoHandle
  BY <1>1, PidsAssumption DEF Handles, NoHandle
<1>4. SupervisorTypeOK'
  BY <1>1, <1>2, <1>3 DEF SupervisorTypeOK, CallSteps, Free
<1>5. NoHandle.id \notin Pids
  BY HandleType
<1>6. TableInv'
  BY <1>1, <1>2, <1>5 DEF TableInv, SupervisorTypeOK
<1>7. RecordInv'
  BY <1>1, <1>2 DEF RecordInv
<1>8. CallInv' /\ AnswerInv'
  BY <1>1 DEF CallInv, AnswerInv
<1> QED
  BY <1>4, <1>6, <1>7, <1>8

\* adopt(): the recorded process, which is no child, becomes the handle's.
LEMMA AdoptPreserves ==
  ASSUME SupervisorInv, AdoptBegins \/ AdoptRefused \/ AdoptEnds
  PROVE  SupervisorInv'
<1> USE DEF SupervisorInv
<1>1. NoHandle.id \notin Pids
  BY HandleType
<1>2. CASE AdoptBegins
  BY <1>2
  DEF AdoptBegins, SupervisorTypeOK, TableInv, RecordInv, CallInv, AnswerInv, CallSteps,
      kernelVars, memoVars, callerVars
<1>3. ASSUME record' = NoHandle, handle = NoHandle, Return("failed"),
             UNCHANGED <<handle, kernelVars, memoVars>>
      PROVE  SupervisorInv'
  <2>1. SupervisorTypeOK'
    BY <1>3 DEF Return, SupervisorTypeOK, Handles, CallSteps, kernelVars, memoVars
  <2>2. TableInv' /\ RecordInv'
    BY <1>3 DEF TableInv, RecordInv, kernelVars, memoVars
  <2>3. CallInv' /\ AnswerInv'
    BY <1>3 DEF Return, CallInv, AnswerInv
  <2> QED
    BY <2>1, <2>2, <2>3
<1>4. CASE AdoptRefused
  BY <1>3, <1>4 DEF AdoptRefused
<1>5. CASE AdoptEnds
  <2>1. handle = NoHandle /\ record # NoHandle /\ record.token # 0 /\ record.id \in Pids
    BY <1>5, HandleType DEF AdoptEnds, CallInv
  <2>2. CASE table[record.id].life = "free"
    BY <1>3, <1>5, <2>1, <2>2 DEF AdoptEnds
  <2>3. CASE table[record.id].life # "free"
    <3>1. /\ handle' = record /\ record' = record
          /\ finished' = finished \ {record.id} /\ adopted' = adopted \cup {record.id}
          /\ UNCHANGED kernelVars /\ Return("ok")
      BY <1>5, <2>3 DEF AdoptEnds
    <3>2. adopted = {} /\ \A p \in Pids : ~table[p].child
      BY <1>1, <2>1 DEF TableInv, SupervisorTypeOK
    <3>3. SupervisorTypeOK'
      BY <2>1, <3>1 DEF Return, SupervisorTypeOK, CallSteps, kernelVars
    <3>4. TableInv'
      BY <2>1, <3>1, <3>2 DEF TableInv, kernelVars
    <3>5. RecordInv'
      BY <2>1, <3>1 DEF RecordInv, kernelVars
    <3>6. CallInv' /\ AnswerInv'
      BY <3>1 DEF Return, CallInv, AnswerInv
    <3> QED
      BY <3>3, <3>4, <3>5, <3>6
  <2> QED
    BY <2>2, <2>3
<1> QED
  BY <1>2, <1>4, <1>5

\* status(), also of a process whose final status is cached.
LEMMA StatusPreserves ==
  ASSUME SupervisorInv, Status
  PROVE  SupervisorInv'
<1> USE DEF SupervisorInv
<1>1. handle # NoHandle /\ call = "idle" /\ UNCHANGED callerVars
  BY DEF Status
<1>2. CASE Observe(handle) /\ Return(Seen(handle)) /\ Seen(handle) = "down"
  <2>1. /\ clock' = clock
        /\ table' \in [Pids -> Entries]
        /\ \A p \in Pids : table'[p] = table[p] \/ (p = handle.id /\ table'[p] = Free)
        /\ \A p \in Pids : ~table'[p].child
        /\ finished' = finished \cup {handle.id} /\ adopted' = {}
        /\ ~(table'[handle.id].life = "running" /\ table'[handle.id].ours)
    BY <1>1, <1>2, ObserveLemma
  <2>2. finished \subseteq Pids /\ handle.id \in Pids
    BY <1>1, HandleType DEF SupervisorTypeOK
  <2>3. SupervisorTypeOK'
    BY <1>1, <1>2, <2>1, <2>2 DEF Return, SupervisorTypeOK, CallSteps, callerVars
  <2>4. TableInv'
    BY <1>1, <2>1, <2>2 DEF TableInv, callerVars
  <2>5. record = handle /\ (handle.token # 0 => handle.token # Free.token)
    BY <1>1 DEF RecordInv, Free
  <2>6. RecordInv'
    BY <1>1, <2>1, <2>2, <2>5 DEF RecordInv, callerVars, Free
  <2>7. CallInv' /\ AnswerInv'
    BY <1>1, <1>2, <2>1 DEF Return, CallInv, AnswerInv, callerVars
  <2> QED
    BY <2>3, <2>4, <2>6, <2>7
<1>3. CASE Observe(handle) /\ Return(Seen(handle)) /\ Seen(handle) # "down"
  <2>1. Seen(handle) = "running"
    BY <1>3 DEF Seen
  <2> QED
    BY <1>1, <1>3, <2>1, ObserveRunning, FailPreserves
<1>4. CASE Return("failed") /\ UNCHANGED <<kernelVars, memoVars>>
  BY <1>1, <1>4, FailPreserves
<1> QED
  BY <1>2, <1>3, <1>4 DEF Status

\* stop() begins only with a process that was just seen running.
LEMMA StopBeginsPreserves ==
  ASSUME SupervisorInv, StopBegins
  PROVE  SupervisorInv'
<1> USE DEF SupervisorInv
<1>1. handle # NoHandle /\ call = "idle"
  BY DEF StopBegins
<1>2. CASE Observe(handle) /\ Seen(handle) = "down" /\ Stopped
  BY <1>1, <1>2, StoppedPreserves
<1>3. CASE /\ Observe(handle) /\ Seen(handle) # "down"
           /\ call' = "term" /\ managed' = (handle.id \in adopted) /\ stale' = FALSE
           /\ UNCHANGED <<hit, answer, callerVars>>
  <2>1. /\ UNCHANGED <<kernelVars, memoVars>> /\ table[handle.id].ours
        /\ handle.id \in adopted \/ table[handle.id].child
    BY <1>1, <1>3, ObserveRunning
  <2>2. managed' \in BOOLEAN
    BY <1>3
  <2>3. SupervisorTypeOK'
    BY <1>1, <1>3, <2>1, <2>2 DEF SupervisorTypeOK, CallSteps, kernelVars, memoVars, callerVars
  <2>4. TableInv' /\ RecordInv' /\ AnswerInv'
    BY <1>3, <2>1 DEF TableInv, RecordInv, AnswerInv, kernelVars, memoVars, callerVars
  <2>5. CallInv'
    BY <1>1, <1>3, <2>1 DEF CallInv, kernelVars, memoVars, callerVars
  <2> QED
    BY <2>3, <2>4, <2>5
<1>4. CASE StopFails /\ UNCHANGED <<kernelVars, memoVars>>
  BY <1>4, FailPreserves DEF StopFails
<1> QED
  BY <1>2, <1>3, <1>4 DEF StopBegins

\* A signal reaches another program's group only through an adopted process
\* whose id has changed hands.
LEMMA SignalReaches ==
  ASSUME SupervisorInv, call \in {"term", "kill"}, Signals, hit' = "foreign"
  PROVE  managed /\ stale /\ ~table[handle.id].ours
<1> USE DEF SupervisorInv
<1>1. handle.id \in Pids
  BY HandleType DEF SupervisorTypeOK
<1>2. hit = "foreign" \/ (table[handle.id].life # "free" /\ ~table[handle.id].ours)
  BY DEF Signals
<1> QED
  BY <1>1, <1>2 DEF CallInv, TableInv, SupervisorTypeOK

LEMMA SignalPreserves ==
  ASSUME SupervisorInv, Term \/ Kill
  PROVE  SupervisorInv'
<1> USE DEF SupervisorInv
<1>1. CASE StopFails /\ UNCHANGED <<kernelVars, memoVars>>
  BY <1>1, FailPreserves DEF StopFails
<1>2. ASSUME call \in {"term", "kill"}, Signals, call' \in {"poll", "settle", "reap"},
             UNCHANGED <<managed, stale, answer, callerVars, clock, memoVars>>,
             \/ table' = table
             \/ /\ table[handle.id].life = "running"
                /\ table' = [table EXCEPT ![handle.id].life = "zombie"]
      PROVE  SupervisorInv'
  <2>1. handle.id \in Pids /\ handle # NoHandle
    BY <1>2, HandleType DEF SupervisorTypeOK
  <2>2. /\ table' \in [Pids -> Entries]
        /\ \A p \in Pids :
             /\ table'[p].child = table[p].child /\ table'[p].ours = table[p].ours
             /\ table'[p].token = table[p].token
             /\ table'[p].life = "free" <=> table[p].life = "free"
             /\ table'[p].life = "running" => table[p].life = "running"
             /\ table'[p].life = "free" => table'[p] = Free
    BY <1>2, <2>1 DEF SupervisorTypeOK, Entries
  <2>3. hit' \in {"none", "own", "foreign"}
    BY <1>2 DEF Signals, SupervisorTypeOK
  <2>4. SupervisorTypeOK'
    BY <1>2, <2>1, <2>2, <2>3 DEF SupervisorTypeOK, CallSteps, callerVars, memoVars
  <2>5. TableInv'
    BY <1>2, <2>2 DEF TableInv, SupervisorTypeOK, callerVars, memoVars
  <2>6. record # NoHandle => record.id \in Pids
    BY HandleType
  <2>7. RecordInv' /\ AnswerInv'
    BY <1>2, <2>1, <2>2, <2>6 DEF RecordInv, AnswerInv, callerVars, memoVars
  <2>8. CallInv'
    BY <1>2, <2>1, <2>2, SignalReaches DEF CallInv, callerVars, memoVars
  <2> QED
    BY <2>4, <2>5, <2>7, <2>8
<1>3. CASE Term
  BY <1>1, <1>2, <1>3 DEF Term, kernelVars
<1>4. CASE Kill
  BY <1>1, <1>2, <1>4 DEF Kill, kernelVars
<1> QED
  BY <1>3, <1>4

\* The waiting parts of stop().
LEMMA WaitPreserves ==
  ASSUME SupervisorInv, Poll \/ PollExpires \/ Settle \/ Reap
  PROVE  SupervisorInv'
<1> USE DEF SupervisorInv
<1>1. call \in {"poll", "settle", "reap"} /\ handle # NoHandle
  BY DEF Poll, PollExpires, Settle, Reap, SupervisorTypeOK
<1>2. CASE Seen(handle) = "down" /\ Observe(handle) /\ Stopped
  BY <1>1, <1>2, StoppedPreserves
<1>3. CASE StopFails /\ UNCHANGED <<kernelVars, memoVars>>
  BY <1>3, FailPreserves DEF StopFails
<1>4. CASE /\ call = "poll" /\ Observe(handle) /\ Seen(handle) # "down"
           /\ stale' = FALSE /\ UNCHANGED <<call, managed, hit, answer, callerVars>>
  <2>1. UNCHANGED <<kernelVars, memoVars>> /\ table[handle.id].ours
    BY <1>1, <1>4, ObserveRunning
  <2>2. hit # "foreign"
    BY <2>1 DEF CallInv
  <2>3. CallInv'
    BY <1>4, <2>1, <2>2 DEF CallInv, kernelVars, memoVars, callerVars
  <2> QED
    BY <1>4, <2>1, <2>3
    DEF SupervisorTypeOK, TableInv, RecordInv, AnswerInv, kernelVars, memoVars, callerVars
<1>5. CASE PollExpires
  BY <1>5
  DEF PollExpires, SupervisorTypeOK, TableInv, RecordInv, CallInv, AnswerInv, CallSteps,
      kernelVars, memoVars, callerVars
<1> QED
  BY <1>2, <1>3, <1>4, <1>5 DEF Poll, Settle, Reap

-----------------------------------------------------------------------------
\* The agent ends: what its supervisor knew is gone, and so are its children.
LEMMA EndPreserves ==
  ASSUME SupervisorInv, AgentEnds
  PROVE  SupervisorInv'
<1> USE DEF SupervisorInv
<1>1. /\ table' \in [Pids -> Entries]
      /\ \A p \in Pids :
           /\ ~table'[p].child /\ table'[p].ours = table[p].ours
           /\ table'[p].token = table[p].token
           /\ table'[p].life = "free" => table'[p] = Free
  BY EntryType DEF AgentEnds, SupervisorTypeOK, Entries, Free
<1>2. /\ finished' = {} /\ adopted' = {} /\ handle' = NoHandle
      /\ record' = record /\ clock' = clock
      /\ call' = "idle" /\ managed' = FALSE /\ stale' = FALSE /\ hit' = "none"
      /\ answer' = "none"
  BY DEF AgentEnds, Return
<1>3. SupervisorTypeOK'
  BY <1>1, <1>2 DEF SupervisorTypeOK, CallSteps, Handles
<1>4. TableInv' /\ CallInv' /\ AnswerInv'
  BY <1>1, <1>2 DEF TableInv, CallInv, AnswerInv
<1>5. RecordInv'
  BY <1>1, <1>2, HandleType DEF RecordInv
<1> QED
  BY <1>3, <1>4, <1>5

\* A process exits and init removes it; neither makes an instance appear.
LEMMA ExitPreserves ==
  ASSUME SupervisorInv, NEW p \in Pids, Exits(p) \/ InitReaps(p)
  PROVE  SupervisorInv'
<1> USE DEF SupervisorInv
<1>1. UNCHANGED <<clock, memoVars, callerVars, callVars>>
  BY DEF Exits, InitReaps
<1>2. Free \in Entries
  BY TokenAssumption DEF Free, Entries
<1>3. /\ table' \in [Pids -> Entries]
      /\ \A q \in Pids :
           /\ table'[q].child => table[q].child /\ table'[q].ours /\ table'[q].life # "free"
           /\ table[q].child => table'[q].child
           /\ table'[q].ours => table[q].ours /\ table'[q].token = table[q].token
           /\ table'[q].life = "running" => table[q].life = "running"
           /\ table'[q].life = "free" => table'[q] = Free
           /\ table[q].life = "free" => table'[q].life = "free"
           /\ table'[q] = Free \/ (table'[q].ours = table[q].ours /\ table'[q].token = table[q].token)
  <2>1. CASE Exits(p)
    BY <2>1 DEF Exits, SupervisorTypeOK, TableInv, Entries, Free
  <2>2. CASE InitReaps(p)
    BY <1>2, <2>2 DEF InitReaps, SupervisorTypeOK, TableInv, Free
  <2> QED
    BY <2>1, <2>2
<1>4. Free.token = 0 /\ ~Free.ours /\ Free.life = "free"
  BY DEF Free
<1> HIDE DEF SupervisorInv
<1>5. SupervisorTypeOK'
  BY <1>1, <1>3 DEF SupervisorInv, SupervisorTypeOK, memoVars, callerVars, callVars
<1>6. TableInv'
  BY <1>1, <1>3 DEF SupervisorInv, TableInv, SupervisorTypeOK, memoVars, callerVars
<1>7. RecordInv'
  BY <1>1, <1>3, <1>4, HandleType DEF SupervisorInv, RecordInv, memoVars, callerVars
<1>8. AnswerInv'
  BY <1>1 DEF SupervisorInv, AnswerInv, memoVars, callerVars, callVars
<1>9. CallInv'
  <2>1. call \notin {"idle", "adopting"} => handle.id \in Pids
    BY HandleType DEF SupervisorInv, SupervisorTypeOK
  <2>2. call \notin {"idle", "adopting"} =>
          /\ table[handle.id].child => table'[handle.id].child
          /\ table'[handle.id].ours => table[handle.id].ours
          /\ table[handle.id].life = "free" \/ table[handle.id].ours =>
               table'[handle.id].life = "free" \/ table'[handle.id].ours
    BY <1>3, <1>4, <2>1
  <2> QED
    BY <1>1, <2>2 DEF SupervisorInv, CallInv, memoVars, callerVars, callVars
<1> QED
  BY <1>5, <1>6, <1>7, <1>8, <1>9 DEF SupervisorInv

\* Another program gets an id, with a token no record holds.
LEMMA OtherPreserves ==
  ASSUME SupervisorInv, NEW p \in Pids, OtherStarts(p)
  PROVE  SupervisorInv'
<1> USE TokenAssumption
<1>1. /\ table[p].life = "free" /\ clock' = clock + 1 /\ clock' \in 0..MaxToken
      /\ stale' = (stale \/ (call # "idle" /\ p = handle.id))
      /\ UNCHANGED <<memoVars, callerVars, call, managed, hit, answer>>
  BY DEF OtherStarts, SupervisorInv, SupervisorTypeOK
<1>2. /\ table' \in [Pids -> Entries]
      /\ \A q \in Pids : q = p \/ table'[q] = table[q]
      /\ table'[p].life = "running" /\ table'[p].token = clock + 1
      /\ ~table'[p].child /\ ~table'[p].ours
  BY <1>1 DEF OtherStarts, SupervisorInv, SupervisorTypeOK, Entries
<1>3. ~table[p].child /\ ~table[p].ours
  BY <1>1, EntryType DEF SupervisorInv
<1>4. stale' \in BOOLEAN
  BY <1>1
<1>5. SupervisorTypeOK'
  BY <1>1, <1>2, <1>4 DEF SupervisorInv, SupervisorTypeOK, Free, memoVars, callerVars
<1>6. TableInv'
  BY <1>1, <1>2 DEF SupervisorInv, TableInv, SupervisorTypeOK, memoVars, callerVars
<1>7. RecordInv'
  BY <1>1, <1>2, <1>3, HandleType DEF SupervisorInv, SupervisorTypeOK, RecordInv, memoVars, callerVars
<1>8. AnswerInv'
  BY <1>1 DEF SupervisorInv, AnswerInv, memoVars, callerVars
<1>9. CallInv'
  <2>1. call \notin {"idle", "adopting"} => handle.id \in Pids
    BY HandleType DEF SupervisorInv, SupervisorTypeOK
  <2> QED
    BY <1>1, <1>2, <1>3, <2>1 DEF SupervisorInv, CallInv, memoVars, callerVars
<1> QED
  BY <1>5, <1>6, <1>7, <1>8, <1>9 DEF SupervisorInv

-----------------------------------------------------------------------------
LEMMA SupervisorInvStep ==
  SupervisorInv /\ [SupervisorNext]_supervisorVars => SupervisorInv'
<1> SUFFICES ASSUME SupervisorInv, [SupervisorNext]_supervisorVars
             PROVE  SupervisorInv'
  OBVIOUS
<1>1. CASE AdoptBegins \/ AdoptRefused \/ AdoptEnds
  BY <1>1, AdoptPreserves
<1>2. CASE Status \/ StopBegins
  BY <1>2, StatusPreserves, StopBeginsPreserves
<1>3. CASE Term \/ Kill
  BY <1>3, SignalPreserves
<1>4. CASE Poll \/ PollExpires \/ Settle \/ Reap
  BY <1>4, WaitPreserves
<1>5. CASE AgentEnds
  BY <1>5, EndPreserves
<1>6. CASE StartFails
  BY <1>6, FailPreserves DEF StartFails, kernelVars, memoVars, callerVars
<1>7. CASE \E p \in Pids : Start(p)
  BY <1>7, StartPreserves
<1>8. CASE \E p \in Pids : Exits(p) \/ InitReaps(p)
  BY <1>8, ExitPreserves
<1>9. CASE \E p \in Pids : OtherStarts(p)
  BY <1>9, OtherPreserves
<1>10. CASE UNCHANGED supervisorVars
  <2> USE <1>10 DEF supervisorVars, kernelVars, memoVars, callerVars, callVars
  <2>1. SupervisorTypeOK'
    BY DEF SupervisorInv, SupervisorTypeOK
  <2>2. TableInv' /\ RecordInv'
    BY DEF SupervisorInv, TableInv, RecordInv
  <2>3. CallInv' /\ AnswerInv'
    BY DEF SupervisorInv, CallInv, AnswerInv
  <2> QED
    BY <2>1, <2>2, <2>3 DEF SupervisorInv
<1> QED
  BY <1>1, <1>2, <1>3, <1>4, <1>5, <1>6, <1>7, <1>8, <1>9, <1>10
  DEF SupervisorNext, CallStep

LEMMA SupervisorInvariant == SupervisorSpec => []SupervisorInv
BY SupervisorInitially, SupervisorInvStep, PTL DEF SupervisorSpec

-----------------------------------------------------------------------------
\* The variables stay in their types: no id has both a cached final status and
\* an adoption, and no step of stop() runs without a handle.
THEOREM SupervisorTypes == SupervisorSpec => []SupervisorTypeOK
<1>1. SupervisorInv => SupervisorTypeOK
  BY DEF SupervisorInv
<1> QED
  BY <1>1, SupervisorInvariant, PTL

\* status() never reports a running instance as ended.
THEOREM DownIsEnded == SupervisorSpec => []DownIsDown
<1>1. SupervisorInv => DownIsDown
  BY DEF SupervisorInv, TableInv, AnswerInv, DownIsDown, Runs
<1> QED
  BY <1>1, SupervisorInvariant, PTL

\* stop() signals another program's group only through an adopted process
\* whose id changed hands after the last look at it.
THEOREM OnlyOwnSignalled == SupervisorSpec => []SignalsOwn
<1>1. SupervisorInv => SignalsOwn
  BY DEF SupervisorInv, CallInv, SignalsOwn
<1> QED
  BY <1>1, SupervisorInvariant, PTL

\* A stop() that reports success leaves no running instance and no unreaped
\* child.  Only a last look that finds the process down makes it succeed.
THEOREM StoppedStaysDown == SupervisorSpec => StoppedIsDown
<1>1. ASSUME SupervisorInv, SupervisorNext,
             answer' = "ok", handle # NoHandle, handle' = NoHandle
      PROVE  ~Runs(table', handle) /\ ~table'[handle.id].child
  <2>1. handle.id \in Pids
    BY <1>1, HandleType DEF SupervisorInv
  <2>2. CASE Observe(handle) /\ Seen(handle) = "down"
    BY <1>1, <2>1, <2>2, ObserveLemma DEF Runs
  <2>3. CASE CallStep
    <3>1. CASE StopFails
      BY <1>1, <3>1 DEF StopFails, Return
    <3>2. CASE UNCHANGED callerVars
      BY <1>1, <3>2 DEF callerVars
    <3>3. CASE AdoptEnds
      BY <1>1, <3>3 DEF AdoptEnds, SupervisorInv, CallInv
    <3> QED
      BY <2>2, <2>3, <3>1, <3>2, <3>3
      DEF CallStep, Term, Poll, PollExpires, Kill, Settle, Reap
  <2>4. CASE AgentEnds
    BY <1>1, <2>4 DEF AgentEnds, Return
  <2>5. CASE Status \/ StopBegins
    <3>1. CASE UNCHANGED callerVars
      BY <1>1, <3>1 DEF callerVars
    <3> QED
      BY <1>1, <2>2, <2>5, <3>1 DEF Status, StopBegins, StopFails, callerVars
  <2>6. CASE \/ \E p \in Pids : Start(p)
             \/ StartFails \/ AdoptBegins \/ AdoptRefused
    BY <1>1, <2>6 DEF Start, StartFails, AdoptBegins, AdoptRefused
  <2>7. CASE \E p \in Pids : Exits(p) \/ InitReaps(p) \/ OtherStarts(p)
    BY <1>1, <2>7 DEF Exits, InitReaps, OtherStarts, callerVars
  <2> QED
    BY <1>1, <2>3, <2>4, <2>5, <2>6, <2>7 DEF SupervisorNext
<1>2. SupervisorInv /\ [SupervisorNext]_supervisorVars =>
        [answer' = "ok" /\ handle # NoHandle /\ handle' = NoHandle =>
           ~Runs(table', handle) /\ ~table'[handle.id].child]_supervisorVars
  BY <1>1
<1> QED
  BY <1>2, SupervisorInvariant, PTL DEF SupervisorSpec, StoppedIsDown
=============================================================================
