------------------------ MODULE HealthCheckerProofs ------------------------
(***************************************************************************)
(* Theorems about HealthChecker for every pair of thresholds, every        *)
(* interval and every timeout.                                             *)
(***************************************************************************)
EXTENDS HealthChecker, TLAPS

\* The history ends with exactly n results of this value.
Streak(value, n) ==
  /\ n \in 0..Len(results)
  /\ \A i \in (Len(results) - n + 1)..Len(results) : results[i] = value
  /\ n < Len(results) => results[Len(results) - n] # value

\* The counters are the lengths of the streaks.
CountsStreaks == Streak(TRUE, successes) /\ Streak(FALSE, failures)

\* k is the latest of these ends, 0 when there is none.
IsLatest(ends, k) == k \in ends \cup {0} /\ \A j \in ends : j <= k

\* The state that follows from where the last complete streaks ended.
Follows(good, bad) ==
  health = CASE good > bad -> "healthy" [] bad > good -> "unhealthy" [] OTHER -> "unknown"

HistoryInv ==
  /\ CountsStreaks
  /\ \E good, bad \in 0..Len(results) :
       /\ IsLatest(StreakEnds(TRUE, Enough), good)
       /\ IsLatest(StreakEnds(FALSE, TooMany), bad)
       /\ Follows(good, bad)

\* A round begins before the deadline, and takes a probe and a sleep at most.
TimeInv ==
  /\ BoundedWait
  /\ loop = "sleep" => now < StartupTimeout + ProbeTimeout

-----------------------------------------------------------------------------
\* A threshold is positive, whatever was configured.
LEMMA ThresholdsPositive == Enough \in Nat \ {0} /\ TooMany \in Nat \ {0}
  BY ThresholdsAssumption DEF Enough, TooMany, Clamp

\* There is at most one latest end, so that CHOOSE finds it.
LEMMA LatestUnique ==
  ASSUME NEW ends, ends \subseteq Nat, NEW k \in Nat, IsLatest(ends, k)
  PROVE  Latest(ends) = k
<1>1. ASSUME NEW j \in ends \cup {0}, \A i \in ends : i <= j PROVE j = k
  BY <1>1 DEF IsLatest
<1>2. k \in ends \cup {0} /\ \A j \in ends : j <= k
  BY DEF IsLatest
<1>3. /\ Latest(ends) \in ends \cup {0}
      /\ \A i \in ends : i <= Latest(ends)
  BY <1>2 DEF Latest
<1> QED
  BY <1>1, <1>3

\* A result prolongs the streak of its value and ends the other.
LEMMA StreaksGrow ==
  ASSUME results \in Seq(BOOLEAN), CountsStreaks, NEW success \in BOOLEAN, Evaluate(success)
  PROVE  CountsStreaks'
<1> DEFINE n == Len(results)
<1>1. /\ n \in Nat /\ Len(results') = n + 1 /\ results'[n + 1] = success
      /\ \A i \in 1..n : results'[i] = results[i] /\ results[i] \in BOOLEAN
  BY DEF Evaluate
<1>2. ASSUME NEW value \in BOOLEAN, NEW s, Streak(value, s), success = value
      PROVE  Streak(value, s + 1)'
  BY <1>1, <1>2 DEF Streak
<1>3. ASSUME NEW value \in BOOLEAN, success # value
      PROVE  Streak(value, 0)'
  BY <1>1, <1>3 DEF Streak
<1> QED
  BY <1>2, <1>3 DEF CountsStreaks, Evaluate

\* A new result ends a streak of n exactly if the streak it is in is that long.
LEMMA EndsGrow ==
  ASSUME results \in Seq(BOOLEAN), NEW success \in BOOLEAN, Evaluate(success),
         NEW value \in BOOLEAN, NEW n \in Nat \ {0}, NEW s, Streak(value, s)'
  PROVE  StreakEnds(value, n)' =
           StreakEnds(value, n) \cup IF s >= n THEN {Len(results) + 1} ELSE {}
<1> DEFINE len == Len(results)
<1>1. /\ len \in Nat /\ Len(results') = len + 1
      /\ \A i \in 1..len : results'[i] = results[i]
  BY DEF Evaluate
<1>2. s \in 0..len + 1
  BY <1>1 DEF Streak
<1>3. ASSUME NEW k \in n..len
      PROVE  k \in StreakEnds(value, n)' <=> k \in StreakEnds(value, n)
  BY <1>1, <1>3 DEF StreakEnds
<1>4. ASSUME s >= n PROVE len + 1 \in StreakEnds(value, n)'
  BY <1>1, <1>2, <1>4 DEF StreakEnds, Streak
<1>5. ASSUME len + 1 \in StreakEnds(value, n)' PROVE s >= n
  <2>1. SUFFICES ASSUME s < n PROVE FALSE
    BY <1>2
  <2>2. n <= len + 1 /\ \A i \in (len + 1 - n + 1)..len + 1 : results'[i] = value
    BY <1>1, <1>5 DEF StreakEnds
  <2>3. len + 1 - s \in (len + 1 - n + 1)..len + 1 /\ s < len + 1
    BY <1>1, <1>2, <2>1, <2>2
  <2>4. results'[len + 1 - s] # value
    BY <1>1, <2>3 DEF Streak
  <2> QED
    BY <2>2, <2>3, <2>4
<1>6. StreakEnds(value, n)' \subseteq n..len + 1 /\ StreakEnds(value, n) \subseteq n..len
  BY <1>1 DEF StreakEnds
<1> HIDE DEF len
<1>7. ASSUME NEW k PROVE k \in n..len + 1 <=> k \in n..len \/ (k = len + 1 /\ n <= len + 1)
  BY <1>1
<1>8. StreakEnds(value, n)' = StreakEnds(value, n) \cup IF s >= n THEN {len + 1} ELSE {}
  BY <1>3, <1>4, <1>5, <1>6, <1>7
<1> QED
  BY <1>8 DEF len

\* evaluate() keeps the state in step with the history.
LEMMA EvaluateFollows ==
  ASSUME HealthTypeOK, HistoryInv, NEW success \in BOOLEAN, Evaluate(success)
  PROVE  HistoryInv'
<1>1. results \in Seq(BOOLEAN) /\ Len(results) \in Nat /\ Len(results)' = Len(results) + 1
  BY DEF HealthTypeOK, Evaluate
<1>2. CountsStreaks'
  BY <1>1, StreaksGrow DEF HistoryInv
<1> DEFINE goods == StreakEnds(TRUE, Enough)
           bads == StreakEnds(FALSE, TooMany)
<1>3. PICK good \in 0..Len(results), bad \in 0..Len(results) :
        IsLatest(goods, good) /\ IsLatest(bads, bad) /\ Follows(good, bad)
  BY DEF HistoryInv
<1>4. PICK last : last = Len(results) + 1
  OBVIOUS
<1>5. /\ goods' = goods \cup IF successes' >= Enough THEN {last} ELSE {}
      /\ bads' = bads \cup IF failures' >= TooMany THEN {last} ELSE {}
  BY <1>1, <1>2, <1>4, EndsGrow, ThresholdsPositive DEF CountsStreaks
<1>6. goods \subseteq 0..Len(results) /\ bads \subseteq 0..Len(results)
  BY <1>1, ThresholdsPositive DEF StreakEnds
<1>7. successes' \in Nat /\ failures' \in Nat
  BY DEF Evaluate, HealthTypeOK
<1> HIDE DEF goods, bads
<1>8. CASE success /\ successes' >= Enough
  <2>1. failures' = 0 /\ health' = "healthy"
    BY <1>8 DEF Evaluate
  <2>2. goods' = goods \cup {last} /\ bads' = bads
    BY <1>5, <1>8, <2>1, ThresholdsPositive
  <2>3. IsLatest(goods', last) /\ IsLatest(bads', bad)
    BY <1>1, <1>3, <1>6, <1>4, <2>2 DEF IsLatest
  <2>4. Follows(last, bad)' /\ last \in 0..Len(results)' /\ bad \in 0..Len(results)'
    BY <1>1, <1>3, <1>4, <2>1 DEF Follows
  <2> QED
    BY <1>2, <2>3, <2>4 DEF HistoryInv, goods, bads
<1>9. CASE ~success /\ failures' >= TooMany
  <2>1. successes' = 0 /\ health' = "unhealthy"
    BY <1>9 DEF Evaluate
  <2>2. goods' = goods /\ bads' = bads \cup {last}
    BY <1>5, <1>9, <2>1, ThresholdsPositive
  <2>3. IsLatest(goods', good) /\ IsLatest(bads', last)
    BY <1>1, <1>3, <1>6, <1>4, <2>2 DEF IsLatest
  <2>4. Follows(good, last)' /\ last \in 0..Len(results)' /\ good \in 0..Len(results)'
    BY <1>1, <1>3, <1>4, <2>1 DEF Follows
  <2> QED
    BY <1>2, <2>3, <2>4 DEF HistoryInv, goods, bads
<1>10. CASE (success => successes' < Enough) /\ (~success => failures' < TooMany)
  <2>1. successes' < Enough /\ failures' < TooMany
    BY <1>10, ThresholdsPositive DEF Evaluate
  <2>2. goods' = goods /\ bads' = bads
    BY <1>5, <1>7, <2>1, ThresholdsPositive
  <2>3. health' = health
    BY <1>7, <1>10, ThresholdsPositive DEF Evaluate
  <2>4. IsLatest(goods', good) /\ IsLatest(bads', bad)
    BY <1>3, <2>2
  <2>5. Follows(good, bad)' /\ good \in 0..Len(results)' /\ bad \in 0..Len(results)'
    BY <1>1, <1>3, <2>3 DEF Follows
  <2> QED
    BY <1>2, <2>4, <2>5 DEF HistoryInv, goods, bads
<1> QED
  BY <1>7, <1>8, <1>9, <1>10, ThresholdsPositive

\* A new checker has no history.
NoHistory == results = <<>> /\ successes = 0 /\ failures = 0 /\ health = "unknown"

LEMMA FreshFollows == NoHistory => HistoryInv
<1> SUFFICES ASSUME NoHistory PROVE HistoryInv
  OBVIOUS
<1> USE DEF NoHistory
<1>1. Len(results) = 0
  OBVIOUS
<1>2. StreakEnds(TRUE, Enough) = {} /\ StreakEnds(FALSE, TooMany) = {}
  BY <1>1, ThresholdsPositive DEF StreakEnds
<1>3. CountsStreaks
  BY <1>1 DEF CountsStreaks, Streak
<1>4. IsLatest({}, 0) /\ Follows(0, 0) /\ 0 \in 0..Len(results)
  BY <1>1 DEF IsLatest, Follows
<1> QED
  BY <1>2, <1>3, <1>4 DEF HistoryInv

LEMMA FreshFollowsNext == NoHistory' => HistoryInv'
  BY FreshFollows, PTL

HealthInv == HealthTypeOK /\ HistoryInv /\ TimeInv

LEMMA HealthInitially == HealthInit => HealthInv
<1> SUFFICES ASSUME HealthInit PROVE HealthInv
  OBVIOUS
<1>1. HistoryInv
  BY FreshFollows DEF HealthInit, NoHistory
<1> QED
  BY <1>1, TimesAssumption DEF HealthInit, HealthInv, HealthTypeOK, TimeInv, BoundedWait

LEMMA ProbePreserves ==
  ASSUME HealthInv, NEW success \in BOOLEAN, NEW ticks \in 0..ProbeTimeout,
         Probe(success, ticks)
  PROVE  HealthInv'
<1> USE DEF HealthInv
<1>1. HistoryInv'
  BY EvaluateFollows DEF Probe
<1>2. now' \in Nat /\ now' < StartupTimeout + ProbeTimeout + Interval
      /\ now' < StartupTimeout + ProbeTimeout
  BY TimesAssumption DEF Probe, HealthTypeOK
<1>3. /\ results' \in Seq(BOOLEAN) /\ successes' \in Nat /\ failures' \in Nat
      /\ health' \in {"unknown", "healthy", "unhealthy"}
  BY DEF Probe, Evaluate, HealthTypeOK
<1>4. verdict' \in {"none", "ready", "unhealthy"} /\ loop' \in {"sleep", "out"}
  BY DEF Probe, Verdict
<1> QED
  BY <1>1, <1>2, <1>3, <1>4 DEF HealthTypeOK, TimeInv, BoundedWait

LEMMA HealthInvStep == HealthInv /\ [HealthNext]_healthVars => HealthInv'
<1> SUFFICES ASSUME HealthInv, [HealthNext]_healthVars PROVE HealthInv'
  OBVIOUS
<1> USE DEF HealthInv
<1>1. ASSUME Fresh, now' = 0, loop' \in {"test", "out"}, verdict' \in {"none", "unhealthy"}
      PROVE  HealthInv'
  <2>1. HistoryInv'
    BY <1>1, FreshFollowsNext DEF Fresh, NoHistory
  <2> QED
    BY <1>1, <2>1, TimesAssumption DEF Fresh, HealthTypeOK, TimeInv, BoundedWait
<1>2. CASE AwaitBegins \/ NoProbe
  BY <1>1, <1>2 DEF AwaitBegins, NoProbe
<1>3. ASSUME UNCHANGED checkerVars PROVE HistoryInv'
  BY <1>3
  DEF HistoryInv, checkerVars, CountsStreaks, Streak, StreakEnds, IsLatest, Follows
<1>4. CASE Sleep
  BY <1>3, <1>4, TimesAssumption DEF Sleep, HealthTypeOK, TimeInv, BoundedWait, checkerVars
<1>5. CASE Deadline
  BY <1>3, <1>5 DEF Deadline, HealthTypeOK, TimeInv, BoundedWait, checkerVars
<1>6. CASE UNCHANGED healthVars
  BY <1>3, <1>6 DEF healthVars, HealthTypeOK, TimeInv, BoundedWait, checkerVars
<1> QED
  BY <1>2, <1>4, <1>5, <1>6, ProbePreserves DEF HealthNext, Await

\* The checker's counters are natural numbers and its states the three of the
\* code, for every configured threshold.
THEOREM HealthTypes == HealthSpec => []HealthTypeOK
<1>1. HealthInv => HealthTypeOK
  BY DEF HealthInv
<1> QED
  BY <1>1, HealthInitially, HealthInvStep, PTL DEF HealthSpec

\* Two counters suffice: the state is the one the whole history of results calls
\* for, also when the thresholds are zero or negative.
THEOREM StateFollowsHistory == HealthSpec => []HealthFollowsHistory
<1>1. ASSUME HealthInv PROVE HealthFollowsHistory
  <2>1. PICK good \in 0..Len(results), bad \in 0..Len(results) :
          /\ IsLatest(StreakEnds(TRUE, Enough), good)
          /\ IsLatest(StreakEnds(FALSE, TooMany), bad)
          /\ Follows(good, bad)
    BY <1>1 DEF HealthInv, HistoryInv
  <2>2. StreakEnds(TRUE, Enough) \subseteq Nat /\ StreakEnds(FALSE, TooMany) \subseteq Nat
    BY ThresholdsPositive DEF StreakEnds
  <2>3. good \in Nat /\ bad \in Nat
    OBVIOUS
  <2>4. Latest(StreakEnds(TRUE, Enough)) = good
    BY <2>1, <2>2, <2>3, LatestUnique
  <2>5. Latest(StreakEnds(FALSE, TooMany)) = bad
    BY <2>1, <2>2, <2>3, LatestUnique
  <2> QED
    BY <2>1, <2>4, <2>5 DEF HealthFollowsHistory, Follows
<1> QED
  BY <1>1, HealthInitially, HealthInvStep, PTL DEF HealthSpec

\* await_ready() ends at most one probe and one sleep after the startup timeout.
THEOREM WaitIsBounded == HealthSpec => []BoundedWait
<1>1. HealthInv => BoundedWait
  BY DEF HealthInv, TimeInv
<1> QED
  BY <1>1, HealthInitially, HealthInvStep, PTL DEF HealthSpec
=============================================================================
