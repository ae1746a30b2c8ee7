---------------------------- MODULE HealthChecker ----------------------------
(***************************************************************************)
(* RolloutKit/Health/HealthChecker.cpp and the readiness loop around it,   *)
(* DeploymentEngine::await_ready(): probe, count, sleep, until the checker *)
(* says healthy or unhealthy or the startup timeout has passed.            *)
(*                                                                         *)
(* Time is counted in ticks.  A probe takes up to ProbeTimeout of them and *)
(* succeeds or fails as it likes.                                          *)
(***************************************************************************)
EXTENDS Integers, Sequences, FiniteSets

CONSTANTS SuccessThreshold,  \* spec.success_threshold, as configured
          FailureThreshold,  \* spec.failure_threshold, as configured
          Interval,          \* spec.interval
          ProbeTimeout,      \* spec.timeout
          StartupTimeout     \* service_.startup_timeout

ASSUME ThresholdsAssumption == SuccessThreshold \in Int /\ FailureThreshold \in Int
ASSUME TimesAssumption == Interval \in Nat \ {0} /\ ProbeTimeout \in Nat /\ StartupTimeout \in Nat

VARIABLES
  health,     \* state_
  successes,  \* consecutive_successes_
  failures,   \* consecutive_failures_
  results,    \* the outcomes of the probes of this checker, oldest first
  now,        \* ticks since await_ready() computed its deadline
  loop,       \* where await_ready() is: not called, at its test, in its sleep
  verdict     \* what it returned

checkerVars == <<health, successes, failures, results>>
healthVars == <<checkerVars, now, loop, verdict>>

\* The constructor reads a threshold of zero or less as one.
Clamp(threshold) == IF threshold <= 0 THEN 1 ELSE threshold
Enough == Clamp(SuccessThreshold)
TooMany == Clamp(FailureThreshold)

HealthTypeOK ==
  /\ health \in {"unknown", "healthy", "unhealthy"}
  /\ successes \in Nat /\ failures \in Nat
  /\ results \in Seq(BOOLEAN)
  /\ now \in Nat
  /\ loop \in {"out", "test", "sleep"}
  /\ verdict \in {"none", "ready", "unhealthy", "timeout"}

HealthInit ==
  /\ health = "unknown" /\ successes = 0 /\ failures = 0 /\ results = <<>>
  /\ now = 0 /\ loop = "out" /\ verdict = "none"

\* Faulty variant: a failure does not end the streak of successes.
EvaluateSum(success) ==
  /\ results' = Append(results, success)
  /\ successes' = IF success THEN successes + 1 ELSE successes
  /\ failures' = IF success THEN 0 ELSE failures + 1
  /\ health' = CASE success /\ successes' >= Enough -> "healthy"
                 [] ~success /\ failures' >= TooMany -> "unhealthy"
                 [] OTHER -> health

\* Faulty variant: a success takes one failure back instead of all.
EvaluateDecay(success) ==
  /\ results' = Append(results, success)
  /\ successes' = IF success THEN successes + 1 ELSE 0
  /\ failures' = IF success THEN failures - 1 ELSE failures + 1
  /\ health' = CASE success /\ successes' >= Enough -> "healthy"
                 [] ~success /\ failures' >= TooMany -> "unhealthy"
                 [] OTHER -> health

\* The counters after a probe, and the state: it changes only when a streak
\* reaches its threshold.
Evaluate(success) ==
  /\ results' = Append(results, success)
  /\ successes' = IF success THEN successes + 1 ELSE 0
  /\ failures' = IF success THEN 0 ELSE failures + 1
  /\ health' = CASE success /\ successes' >= Enough -> "healthy"
                 [] ~success /\ failures' >= TooMany -> "unhealthy"
                 [] OTHER -> health

\* A new checker, and what reset() leaves of an old one.
Fresh == health' = "unknown" /\ successes' = 0 /\ failures' = 0 /\ results' = <<>>

\* await_ready() is called: a new checker, a new deadline.
AwaitBegins ==
  /\ loop = "out"
  /\ Fresh
  /\ now' = 0 /\ loop' = "test" /\ verdict' = "none"

\* No probe can be built for the started process: the call fails at once.
NoProbe ==
  /\ loop = "out"
  /\ Fresh
  /\ now' = 0 /\ verdict' = "unhealthy"
  /\ UNCHANGED loop

\* The verdict the checker's state calls for, if any.
Verdict(state) ==
  CASE state = "healthy" -> "ready" [] state = "unhealthy" -> "unhealthy" [] OTHER -> "none"

\* Faulty variant: the deadline is not looked at.
ProbeAnyTime(success, ticks) ==
  /\ loop = "test"
  /\ Evaluate(success)
  /\ now' = now + ticks
  /\ verdict' = Verdict(health')
  /\ loop' = IF verdict' = "none" THEN "sleep" ELSE "out"

\* One round of the loop: a probe is made while the deadline has not passed.
Probe(success, ticks) ==
  /\ loop = "test" /\ now < StartupTimeout
  /\ Evaluate(success)
  /\ now' = now + ticks
  /\ verdict' = Verdict(health')
  /\ loop' = IF verdict' = "none" THEN "sleep" ELSE "out"

Sleep ==
  /\ loop = "sleep"
  /\ now' = now + Interval
  /\ loop' = "test"
  /\ UNCHANGED <<checkerVars, verdict>>

\* Faulty variant: the deadline is set anew when it passes.
DeadlineAnew ==
  /\ loop = "test" /\ now >= StartupTimeout
  /\ Fresh
  /\ now' = 0
  /\ UNCHANGED <<loop, verdict>>

Deadline ==
  /\ loop = "test" /\ now >= StartupTimeout
  /\ verdict' = "timeout" /\ loop' = "out"
  /\ UNCHANGED <<checkerVars, now>>

Await ==
  \/ \E success \in BOOLEAN, ticks \in 0..ProbeTimeout : Probe(success, ticks)
  \/ Sleep \/ Deadline

HealthNext == AwaitBegins \/ NoProbe \/ Await

HealthSpec == HealthInit /\ [][HealthNext]_healthVars

\* The thread in the loop keeps running: a probe and a sleep end.
FairHealthSpec == HealthSpec /\ WF_healthVars(Await)

-----------------------------------------------------------------------------
(* Properties                                                              *)

\* The ends of the streaks of n equal results in the history.
StreakEnds(value, n) ==
  {k \in n..Len(results) : \A i \in (k - n + 1)..k : results[i] = value}

Latest(ends) == CHOOSE k \in ends \cup {0} : \A j \in ends : j <= k

\* What the state means, in terms of the history alone: healthy when the last
\* streak that reached its threshold was one of successes, unhealthy when it
\* was one of failures, unknown before the first.
HealthFollowsHistory ==
  LET good == Latest(StreakEnds(TRUE, Enough))
      bad == Latest(StreakEnds(FALSE, TooMany))
  IN  health = CASE good > bad -> "healthy" [] bad > good -> "unhealthy" [] OTHER -> "unknown"

\* The wait overshoots the startup timeout by one round at most.
BoundedWait == now < StartupTimeout + ProbeTimeout + Interval

\* await_ready() returns.
AwaitEnds == loop # "out" ~> loop = "out"
=============================================================================
