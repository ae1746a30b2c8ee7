-------------------------- MODULE ProcessSupervisor --------------------------
(***************************************************************************)
(* RolloutKit/Process/PosixProcessSupervisor.cpp: starting, adopting,      *)
(* querying and stopping one service process, on a kernel that hands out   *)
(* process ids again.                                                      *)
(*                                                                         *)
(* A process of this agent stays in the table as a zombie, its id taken,   *)
(* until the agent waits for it; one started by an earlier agent belongs   *)
(* to init, which may remove it at any time.  The caller is the deployment *)
(* engine: it records what it starts, adopts the recorded process when the *)
(* agent starts again, and drops the handle once stop() succeeds.          *)
(***************************************************************************)
EXTENDS Naturals, FiniteSets

CONSTANTS Pids,        \* the process ids the kernel hands out
          MaxToken,    \* bound: the starts of processes in a behaviour
          Faults       \* the system calls that may fail

ASSUME TokenAssumption == MaxToken \in Nat
ASSUME PidsAssumption == "none" \notin Pids

VARIABLES
  table,     \* the kernel's process table: [life, token, child, ours]
  clock,     \* the last start token given out
  finished,  \* finished_: the ids with a cached final status
  adopted,   \* adopted_
  handle,    \* the handle the caller holds
  record,    \* the handle the caller has on disk
  call,      \* where stop() or adopt() is, "idle" when neither runs
  managed,   \* stop(): is_adopted, read when the call began
  stale,     \* the id changed hands since the last query of this call
  hit,       \* whose group the last signal reached
  answer     \* what the last call returned

kernelVars == <<table, clock>>
memoVars == <<finished, adopted>>
callerVars == <<handle, record>>
callVars == <<call, managed, stale, hit, answer>>
supervisorVars == <<kernelVars, memoVars, callerVars, callVars>>

\* A start token of zero: the start time could not be read.
NoHandle == [id |-> "none", token |-> 0]
Handles == [id: Pids, token: 0..MaxToken] \cup {NoHandle}

\* life: "free" ids have no process.  child: this agent is the parent.
\* ours: started by a supervisor, of this agent or of an earlier one.
Free == [life |-> "free", token |-> 0, child |-> FALSE, ours |-> FALSE]
Entries == [life: {"free", "running", "zombie"}, token: 0..MaxToken,
            child: BOOLEAN, ours: BOOLEAN]

CallSteps == {"idle", "adopting", "term", "poll", "kill", "settle", "reap"}

SupervisorTypeOK ==
  /\ table \in [Pids -> Entries]
  /\ \A p \in Pids : table[p].life = "free" => table[p] = Free
  /\ clock \in 0..MaxToken
  /\ finished \subseteq Pids /\ adopted \subseteq Pids
  /\ finished \cap adopted = {}
  /\ handle \in Handles /\ record \in Handles
  /\ call \in CallSteps
  /\ call \notin {"idle", "adopting"} => handle # NoHandle
  /\ managed \in BOOLEAN /\ stale \in BOOLEAN
  /\ hit \in {"none", "own", "foreign"}
  /\ answer \in {"none", "ok", "failed", "running", "down"}

SupervisorInit ==
  /\ table = [p \in Pids |-> Free]
  /\ clock = 0
  /\ finished = {} /\ adopted = {}
  /\ handle = NoHandle /\ record = NoHandle
  /\ call = "idle" /\ managed = FALSE /\ stale = FALSE
  /\ hit = "none" /\ answer = "none"

Return(result) ==
  /\ call' = "idle" /\ managed' = FALSE /\ stale' = FALSE
  /\ hit' = "none" /\ answer' = result

\* stop() succeeded: the caller forgets the process.
Stopped == Return("ok") /\ handle' = NoHandle /\ record' = NoHandle

StopFails == Return("failed") /\ UNCHANGED callerVars

-----------------------------------------------------------------------------
(* start()                                                                 *)

\* Faulty variant: what is cached of an earlier process with this id stays.
StartOverCache(p) ==
  /\ call = "idle" /\ handle = NoHandle
  /\ table[p].life = "free" /\ clock < MaxToken
  /\ clock' = clock + 1
  /\ table' = [table EXCEPT ![p] = [life |-> "running", token |-> clock',
                                    child |-> TRUE, ours |-> TRUE]]
  /\ handle' = [id |-> p, token |-> clock'] /\ record' = handle'
  /\ Return("ok")
  /\ UNCHANGED memoVars

\* fork and exec worked.  What is known of an earlier process with this id is
\* forgotten.  The caller records the handle.
Start(p) ==
  /\ call = "idle" /\ handle = NoHandle
  /\ table[p].life = "free" /\ clock < MaxToken
  /\ clock' = clock + 1
  /\ table' = [table EXCEPT ![p] = [life |-> "running", token |-> clock',
                                    child |-> TRUE, ours |-> TRUE]]
  /\ \E token \in {clock'} \cup (IF "token" \in Faults THEN {0} ELSE {}) :
       handle' = [id |-> p, token |-> token]
  /\ record' = handle'
  /\ finished' = finished \ {p} /\ adopted' = adopted \ {p}
  /\ Return("ok")

\* The pipe, the fork, the working directory or the exec failed; a child that
\* was forked has been waited for.
StartFails ==
  /\ call = "idle" /\ handle = NoHandle
  /\ Return("failed")
  /\ UNCHANGED <<kernelVars, memoVars, callerVars>>

-----------------------------------------------------------------------------
(* adopt()                                                                 *)

\* The recorded instance has a token and the process with its id the same.
AdoptBegins ==
  /\ call = "idle" /\ handle = NoHandle /\ record # NoHandle
  /\ record.token # 0 /\ table[record.id].token = record.token
  /\ call' = "adopting"
  /\ UNCHANGED <<managed, stale, hit, answer, kernelVars, memoVars, callerVars>>

\* The process is gone, another has its id, or its token cannot be read: the
\* caller clears its record.
AdoptRefused ==
  /\ call = "idle" /\ handle = NoHandle /\ record # NoHandle
  /\ \/ record.token = 0 \/ table[record.id].token # record.token
     \/ "token" \in Faults
  /\ record' = NoHandle
  /\ Return("failed")
  /\ UNCHANGED <<handle, kernelVars, memoVars>>

\* kill(id, 0), after the token was compared.
AdoptEnds ==
  /\ call = "adopting"
  /\ IF table[record.id].life = "free"
       THEN record' = NoHandle /\ Return("failed") /\ UNCHANGED <<handle, memoVars>>
       ELSE /\ handle' = record
            /\ finished' = finished \ {record.id}
            /\ adopted' = adopted \cup {record.id}
            /\ Return("ok")
            /\ UNCHANGED record
  /\ UNCHANGED kernelVars

-----------------------------------------------------------------------------
(* status() and adopted_status()                                           *)

\* Faulty variant: whatever process has the id is taken for the adopted one.
SeenAnywhere(h) ==
  LET entry == table[h.id]
  IN  CASE h.id \in finished -> "down"
        [] h.id \notin finished /\ entry.child -> IF entry.life = "running" THEN "running" ELSE "down"
        [] OTHER -> IF h.id \in adopted /\ entry.life # "free" THEN "running" ELSE "down"

\* The answer: from the cache; for a child, waitpid's; for an adopted process
\* there is one with its id and its start token, which may be a zombie; for
\* any other, unknown, which no caller takes for running.
Seen(h) ==
  LET entry == table[h.id]
  IN  CASE h.id \in finished -> "down"
        [] h.id \notin finished /\ entry.child -> IF entry.life = "running" THEN "running" ELSE "down"
        [] OTHER -> IF h.id \in adopted /\ entry.life # "free" /\ entry.token = h.token
                      THEN "running" ELSE "down"

\* Faulty variant: an adopted process that has ended stays adopted.
ObserveKeeps(h) ==
  IF h.id \notin finished /\ Seen(h) = "down" /\ (table[h.id].child \/ h.id \in adopted)
    THEN /\ table' = IF table[h.id].child THEN [table EXCEPT ![h.id] = Free] ELSE table
         /\ finished' = finished \cup {h.id}
         /\ UNCHANGED <<clock, adopted>>
    ELSE UNCHANGED <<kernelVars, memoVars>>

\* The effect, unless the answer came from the cache: waitpid takes a zombie
\* child off the table, and a final status is cached.
Observe(h) ==
  IF h.id \notin finished /\ Seen(h) = "down" /\ (table[h.id].child \/ h.id \in adopted)
    THEN /\ table' = IF table[h.id].child THEN [table EXCEPT ![h.id] = Free] ELSE table
         /\ finished' = finished \cup {h.id} /\ adopted' = adopted \ {h.id}
         /\ UNCHANGED clock
    ELSE UNCHANGED <<kernelVars, memoVars>>

\* waitpid fails, or the token of an adopted process cannot be read.
QueryFails == {"wait", "token"} \cap Faults # {}

\* A probe asks for the status.
Status ==
  /\ call = "idle" /\ handle # NoHandle
  /\ \/ Observe(handle) /\ Return(Seen(handle))
     \/ QueryFails /\ Return("failed") /\ UNCHANGED <<kernelVars, memoVars>>
  /\ UNCHANGED callerVars

-----------------------------------------------------------------------------
(* stop()                                                                  *)

\* The process group whose id is in the handle gets a signal.
Signals ==
  hit' = CASE table[handle.id].life = "free" -> hit
           [] table[handle.id].ours -> "own"
           [] OTHER -> "foreign"

\* A process that is not running has nothing to be stopped.
StopBegins ==
  /\ call = "idle" /\ handle # NoHandle
  /\ \/ /\ Observe(handle)
        /\ IF Seen(handle) = "down"
             THEN Stopped
             ELSE /\ call' = "term" /\ managed' = (handle.id \in adopted) /\ stale' = FALSE
                  /\ UNCHANGED <<hit, answer, callerVars>>
     \/ QueryFails /\ StopFails /\ UNCHANGED <<kernelVars, memoVars>>

\* kill(-id, SIGTERM).  What the service does about it is its own affair.
Term ==
  /\ call = "term"
  /\ \/ /\ Signals
        /\ call' = "poll"
        /\ UNCHANGED <<managed, stale, answer, callerVars>>
     \/ "signal" \in Faults /\ StopFails
  /\ UNCHANGED <<kernelVars, memoVars>>

\* One poll before the deadline; nothing changes while the process runs.
Poll ==
  /\ call = "poll"
  /\ \/ /\ Observe(handle)
        /\ IF Seen(handle) = "down"
             THEN Stopped
             ELSE stale' = FALSE /\ UNCHANGED <<call, managed, hit, answer, callerVars>>
     \/ QueryFails /\ StopFails /\ UNCHANGED <<kernelVars, memoVars>>

\* The deadline has passed; it is looked at before the process is.
PollExpires ==
  /\ call = "poll"
  /\ call' = "kill"
  /\ UNCHANGED <<managed, stale, hit, answer, kernelVars, memoVars, callerVars>>

\* Faulty variant: the fallback repeats SIGTERM.
KillSoftly ==
  /\ call = "kill"
  /\ Signals
  /\ call' = IF managed THEN "settle" ELSE "reap"
  /\ UNCHANGED <<managed, stale, answer, callerVars, kernelVars, memoVars>>

\* kill(-id, SIGKILL): the process ends, as a zombie.
Kill ==
  /\ call = "kill"
  /\ \/ /\ Signals
        /\ table' = IF table[handle.id].life = "running"
                      THEN [table EXCEPT ![handle.id].life = "zombie"] ELSE table
        /\ call' = IF managed THEN "settle" ELSE "reap"
        /\ UNCHANGED <<managed, stale, answer, callerVars>>
     \/ "signal" \in Faults /\ StopFails /\ UNCHANGED table
  /\ UNCHANGED <<clock, memoVars>>

\* settle(): adopted_status() until the process is gone, or a second timeout.
\* Nobody else may be waiting for it: a zombie still counts as alive.
Settle ==
  /\ call = "settle"
  /\ \/ Seen(handle) = "down" /\ Observe(handle) /\ Stopped
     \/ StopFails /\ UNCHANGED <<kernelVars, memoVars>>

\* reap(): a waitpid that blocks until the child has ended.
Reap ==
  /\ call = "reap"
  /\ Seen(handle) = "down"
  /\ \/ Observe(handle) /\ Stopped
     \/ "wait" \in Faults /\ StopFails /\ UNCHANGED <<kernelVars, memoVars>>

-----------------------------------------------------------------------------
(* The agent and the kernel around the supervisor                          *)

\* The agent ends, and the next one has an empty supervisor; init inherits
\* the processes.
AgentEnds ==
  /\ table' = [p \in Pids |-> [table[p] EXCEPT !.child = FALSE]]
  /\ finished' = {} /\ adopted' = {}
  /\ handle' = NoHandle
  /\ Return("none")
  /\ UNCHANGED <<clock, record>>

\* A process exits by itself, or because of SIGTERM.
Exits(p) ==
  /\ table[p].life = "running"
  /\ table' = [table EXCEPT ![p].life = "zombie"]
  /\ UNCHANGED <<clock, memoVars, callerVars, callVars>>

InitReaps(p) ==
  /\ table[p].life = "zombie" /\ ~table[p].child
  /\ table' = [table EXCEPT ![p] = Free]
  /\ UNCHANGED <<clock, memoVars, callerVars, callVars>>

\* Some other program starts a process and gets a free id.
OtherStarts(p) ==
  /\ table[p].life = "free" /\ clock < MaxToken
  /\ clock' = clock + 1
  /\ table' = [table EXCEPT ![p] = [life |-> "running", token |-> clock',
                                    child |-> FALSE, ours |-> FALSE]]
  /\ stale' = (stale \/ (call # "idle" /\ p = handle.id))
  /\ UNCHANGED <<memoVars, callerVars, call, managed, hit, answer>>

\* The agent's thread inside a call.
CallStep == AdoptEnds \/ Term \/ Poll \/ PollExpires \/ Kill \/ Settle \/ Reap

SupervisorNext ==
  \/ CallStep
  \/ (\E p \in Pids : Start(p)) \/ StartFails
  \/ AdoptBegins \/ AdoptRefused \/ Status \/ StopBegins
  \/ AgentEnds
  \/ \E p \in Pids : Exits(p) \/ InitReaps(p) \/ OtherStarts(p)

SupervisorSpec == SupervisorInit /\ [][SupervisorNext]_supervisorVars

\* The thread in the call keeps running, and its clock: a deadline passes.
\* Nothing is assumed of the service or of init.
FairSupervisorSpec == SupervisorSpec /\ WF_supervisorVars(CallStep)

-----------------------------------------------------------------------------
(* Properties                                                              *)

\* The instance a handle stands for is running.
Runs(processes, h) == processes[h.id].life = "running" /\ processes[h.id].ours

\* A stop() that reports success leaves no running instance and no unreaped
\* child: whether the process was started or adopted, whether it obeyed, was
\* killed or had ended before, and whoever had its id earlier.
StoppedIsDown ==
  [][answer' = "ok" /\ handle # NoHandle /\ handle' = NoHandle =>
       ~Runs(table', handle) /\ ~table'[handle.id].child]_supervisorVars

\* status() never reports a running instance as ended (the answer stays true),
\* not even from the cached status of an earlier process with the same id.
DownIsDown == answer = "down" => ~Runs(table, handle)

\* stop() signals another program's process group only if the process was
\* adopted and its id changed hands after the last look at it; a process the
\* agent started itself keeps its id until the agent has waited for it.
SignalsOwn == hit = "foreign" => managed /\ stale

\* stop() and adopt() return, whatever the service does with SIGTERM and
\* however late init removes an adopted process.
CallsEnd == call # "idle" ~> call = "idle"
=============================================================================
