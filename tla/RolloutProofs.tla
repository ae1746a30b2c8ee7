---------------------------- MODULE RolloutProofs ----------------------------
(***************************************************************************)
(* Theorems about Rollout for any number of requests, devices and files,   *)
(* any updates, settings and JSON objects, any times (two deployments may  *)
(* have the same), and any faults but, where a theorem says so, lost       *)
(* reports; and, before them, about what a rollout begins with: the paths  *)
(* of a release and the numbers of a configuration file.                   *)
(***************************************************************************)
EXTENDS Rollout, RestApiProofs, WellFoundedInduction, SequenceTheorems

-----------------------------------------------------------------------------
(* Configuration files                                                     *)

\* The configuration files: any value of any kind under any name.
IsFile(file) ==
  \A key \in DOMAIN file.values :
    file.values[key].kind = "int" => file.values[key].value \in Int

\* The conversion (int)as_int64() of read_int() yields an int.
LEMMA IntInRange ==
  ASSUME NEW n \in Int
  PROVE  ToInt(n) \in IntMin..IntMax
BY IntAssumption, Z3 DEF ToInt, IntMin

LEMMA ReadIsInt ==
  ASSUME NEW file, IsFile(file), NEW key, NEW default \in IntMin..IntMax
  PROVE  Read(file, key, "int", default) \in IntMin..IntMax
<1>1. CASE file.loaded /\ key \in DOMAIN file.values /\ file.values[key].kind = "int"
  <2>1. file.values[key].value \in Int
    BY <1>1 DEF IsFile
  <2> QED
    BY <1>1, <2>1, IntInRange DEF Read
<1> QED
  BY <1>1 DEF Read

\* Whatever the file holds, each number of the agent is an int within the range
\* validate_configuration() gives it: keep_previous_releases is the natural
\* number ReleaseInstaller assumes, both thresholds are positive as
\* HealthChecker assumes, every timeout is positive.
THEOREM AgentNumbersInRange ==
  ASSUME NEW file, IsFile(file), NEW key \in AgentNumbers
  PROVE  AgentNumber(file, key) \in AgentRange[key].low..AgentRange[key].high
<1> DEFINE range == AgentRange[key]
<1>1. range.default \in range.low..range.high
  BY IntAssumption DEF AgentRange, AgentNumbers
<1>2. range.default \in IntMin..IntMax /\ range.low \in Int /\ range.high \in Int
  BY IntAssumption DEF AgentRange, AgentNumbers, IntMin
<1> HIDE DEF range
<1>3. Read(file, key, "int", range.default) \in IntMin..IntMax
  BY <1>2, ReadIsInt
<1>4. Read(file, key, "int", range.default) \in Int
  BY <1>3, IntAssumption DEF IntMin
<1>5. InRange(Read(file, key, "int", range.default), range.low, range.high, range.default)
        \in range.low..range.high
  BY <1>1, <1>2, <1>4 DEF InRange
<1> QED
  BY <1>5 DEF AgentNumber, range

\* The CLI waits for an answer, and not for ever, also when the file's integer
\* does not fit an int and the argument is any int.
THEOREM RequestTimeoutPositive ==
  ASSUME NEW file, IsFile(file),
         NEW arguments, \A key \in DOMAIN arguments : arguments[key] \in IntMin..IntMax
  PROVE  RequestTimeout(file, arguments) \in 1..IntMax
<1>1. Read(file, "request_timeout_seconds", "int", 30) \in IntMin..IntMax
  BY ReadIsInt, IntAssumption DEF IntMin
<1>2. Override(arguments, "request_timeout_seconds",
               Read(file, "request_timeout_seconds", "int", 30)) \in IntMin..IntMax
  BY <1>1 DEF Override
<1> QED
  BY <1>2, IntAssumption DEF RequestTimeout, InRange, IntMin

-----------------------------------------------------------------------------
(* Paths                                                                   *)

\* A non-empty set of natural numbers has a least element.
LEMMA Least ==
  ASSUME NEW T, T \subseteq Nat, T # {}
  PROVE  \E x \in T : \A y \in T : x <= y
<1>1. PICK x \in T : \A y \in T : ~ (<<y, x>> \in OpToRel(<, Nat))
  BY WFMin, NatLessThanWellFounded
<1>2. \A y \in T : ~(y < x)
  BY <1>1 DEF OpToRel
<1> QED
  BY <1>2

\* What holds at 0 and is kept from each number to the next holds up to N.
LEMMA UpTo ==
  ASSUME NEW N \in Nat, NEW Good, 0 \in Good,
         \A n \in 1..N : n - 1 \in Good => n \in Good
  PROVE  0..N \subseteq Good
<1> DEFINE Bad == {n \in 0..N : n \notin Good}
<1> SUFFICES ASSUME Bad # {} PROVE FALSE
  OBVIOUS
<1>1. Bad \subseteq Nat
  OBVIOUS
<1>2. PICK n \in Bad : \A m \in Bad : n <= m
  <2> HIDE DEF Bad
  <2> QED
    BY <1>1, Least
<1>3. n \in 1..N /\ n \notin Good
  OBVIOUS
<1>4. n - 1 \in 0..N /\ n - 1 \notin Bad
  BY <1>2, <1>3
<1> QED
  BY <1>3, <1>4

\* A function on 0..N can be defined by its first value and the steps from
\* each value to the next.
Steps(f, N, start, step) == f[0] = start /\ \A n \in 1..N : f[n] = step[n][f[n - 1]]

LEMMA Recursion ==
  ASSUME NEW N \in Nat, NEW T, NEW start \in T, NEW step \in [1..N -> [T -> T]]
  PROVE  \E f \in [0..N -> T] : Steps(f, N, start, step)
<1> DEFINE Good == {m \in 0..N : \E f \in [0..m -> T] : Steps(f, m, start, step)}
<1>1. 0 \in Good
  <2> DEFINE f == [n \in 0..0 |-> start]
  <2>1. f \in [0..0 -> T] /\ Steps(f, 0, start, step)
    BY DEF Steps
  <2> HIDE DEF f
  <2> QED
    BY <2>1
<1>2. ASSUME NEW m \in 1..N, m - 1 \in Good PROVE m \in Good
  <2>1. PICK f \in [0..m-1 -> T] : Steps(f, m - 1, start, step)
    BY <1>2
  <2>2. f[m-1] \in T /\ step[m] \in [T -> T]
    OBVIOUS
  <2> DEFINE g == [n \in 0..m |-> IF n = m THEN step[m][f[m-1]] ELSE f[n]]
  <2>3. g \in [0..m -> T]
    BY <2>2
  <2>4. Steps(g, m, start, step)
    BY <2>1 DEF Steps
  <2> HIDE DEF g
  <2> QED
    BY <2>3, <2>4
<1>3. 0..N \subseteq Good
  <2> HIDE DEF Good
  <2> QED
    BY <1>1, <1>2, UpTo
<1> QED
  BY <1>3

\* Normals and Depths satisfy the equations they are written with.
LEMMA NormalsDefined ==
  ASSUME NEW S, NEW path \in Seq(S)
  PROVE  /\ Normals(path)[0] = <<>>
         /\ \A n \in 1..Len(path) :
              Normals(path)[n] = Follow(Normals(path)[n - 1], path[n])
<1> DEFINE N == Len(path)
           T == Seq(S)
           step == [n \in 1..N |-> [sofar \in T |-> Follow(sofar, path[n])]]
<1>1. ASSUME NEW n \in 1..N, NEW sofar \in T PROVE Follow(sofar, path[n]) \in T
  <2>1. path[n] \in S /\ Append(sofar, path[n]) \in T
    OBVIOUS
  <2>2. SubSeq(sofar, 1, Len(sofar) - 1) \in Seq(S)
    BY SubSeqProperties
  <2> QED
    BY <2>1, <2>2 DEF Follow, Front
<1>2. step \in [1..N -> [T -> T]]
  BY <1>1
<1>3. N \in Nat /\ <<>> \in T
  OBVIOUS
<1>4. \A n \in 1..N, sofar \in T : step[n][sofar] = Follow(sofar, path[n])
  OBVIOUS
<1> HIDE DEF step, T, N
<1>5. PICK f \in [0..N -> T] : Steps(f, N, <<>>, step)
  BY <1>2, <1>3, Recursion
<1>6. \A n \in 1..N : f[n - 1] \in T
  BY <1>3
<1>7. \A n \in 0..N : f[n] = IF n = 0 THEN <<>> ELSE Follow(f[n - 1], path[n])
  BY <1>3, <1>4, <1>5, <1>6 DEF Steps
<1>8. f = [n \in 0..N |-> IF n = 0 THEN <<>> ELSE Follow(f[n - 1], path[n])]
  BY <1>7
<1>9. Normals(path) = [n \in 0..N |-> IF n = 0 THEN <<>> ELSE Follow(Normals(path)[n - 1], path[n])]
  BY <1>8 DEF Normals, N
<1> QED
  BY <1>3, <1>9 DEF N

LEMMA DepthsDefined ==
  ASSUME NEW S, NEW path \in Seq(S)
  PROVE  /\ Depths(path)[0] = 0
         /\ \A n \in 1..Len(path) :
              Depths(path)[n] = Depths(path)[n - 1] + Descent(path[n])
<1> DEFINE N == Len(path)
           step == [n \in 1..N |-> [depth \in Int |-> depth + Descent(path[n])]]
<1>1. \A n \in 1..N : Descent(path[n]) \in Int
  BY DEF Descent
<1>2. step \in [1..N -> [Int -> Int]]
  BY <1>1
<1>3. N \in Nat /\ 0 \in Int
  OBVIOUS
<1>4. \A n \in 1..N, depth \in Int : step[n][depth] = depth + Descent(path[n])
  OBVIOUS
<1> HIDE DEF step, N
<1>5. PICK f \in [0..N -> Int] : Steps(f, N, 0, step)
  BY <1>2, <1>3, Recursion
<1>6. \A n \in 1..N : f[n - 1] \in Int
  BY <1>3
<1>7. \A n \in 0..N : f[n] = IF n = 0 THEN 0 ELSE f[n - 1] + Descent(path[n])
  BY <1>3, <1>4, <1>5, <1>6 DEF Steps
<1>8. f = [n \in 0..N |-> IF n = 0 THEN 0 ELSE f[n - 1] + Descent(path[n])]
  BY <1>7
<1>9. Depths(path) = [n \in 0..N |-> IF n = 0 THEN 0 ELSE Depths(path)[n - 1] + Descent(path[n])]
  BY <1>8 DEF Depths, N
<1> QED
  BY <1>3, <1>9 DEF N

\* As long as the path stays inside, it normalizes to as many names as it is
\* deep; once it was outside, what it normalizes to begins with "..".
Within(path, n) ==
  /\ \A i \in 1..Len(Normals(path)[n]) : Normals(path)[n][i] # ".."
  /\ Depths(path)[n] = Len(Normals(path)[n])
  /\ \A m \in 0..n : Depths(path)[m] >= 0

Outside(path, n) ==
  /\ Normals(path)[n] # <<>> /\ Normals(path)[n][1] = ".."
  /\ \E m \in 1..n : Depths(path)[m] < 0

LEMMA WithinOrOutside ==
  ASSUME NEW S, NEW path \in Seq(S), NEW n \in 0..Len(path)
  PROVE  /\ Normals(path)[n] \in Seq(S) /\ Depths(path)[n] \in Int
         /\ Within(path, n) \/ Outside(path, n)
<1> DEFINE Known(i) == /\ Normals(path)[i] \in Seq(S) /\ Depths(path)[i] \in Int
                       /\ Within(path, i) \/ Outside(path, i)
           N == Len(path)
           Good == {i \in 0..N : Known(i)}
<1>1. N \in Nat /\ Normals(path)[0] = <<>> /\ Depths(path)[0] = 0
  BY NormalsDefined, DepthsDefined
<1>2. 0 \in Good
  <2>1. Depths(path)[0] = Len(Normals(path)[0])
    BY <1>1
  <2>2. Within(path, 0)
    BY <1>1, <2>1 DEF Within
  <2>3. Normals(path)[0] \in Seq(S)
    BY <1>1
  <2>4. Known(0)
    BY <1>1, <2>2, <2>3
  <2> HIDE DEF Known
  <2> QED
    BY <1>1, <2>4
<1>3. ASSUME NEW i \in 1..N, i - 1 \in Good PROVE i \in Good
  <2> DEFINE sofar == Normals(path)[i - 1]
             depth == Depths(path)[i - 1]
             segment == path[i]
             now == Normals(path)[i]
  <2>1. /\ sofar \in Seq(S) /\ depth \in Int /\ segment \in S
        /\ Within(path, i - 1) \/ Outside(path, i - 1)
    BY <1>3
  <2>2. now = Follow(sofar, segment) /\ Depths(path)[i] = depth + Descent(segment)
    BY NormalsDefined, DepthsDefined
  <2>3. Within(path, i - 1) => depth = Len(sofar) /\ \A j \in 1..Len(sofar) : sofar[j] # ".."
    BY DEF Within
  <2>4. Outside(path, i - 1) => sofar # <<>> /\ sofar[1] = ".."
    BY DEF Outside
  <2> HIDE DEF sofar, depth, segment, now
  \* What is normalized and how deep it is ...
  <2>5. /\ now \in Seq(S) /\ Depths(path)[i] \in Int
        /\ Within(path, i - 1) =>
             \/ /\ Depths(path)[i] = Len(now) /\ \A j \in 1..Len(now) : now[j] # ".."
             \/ now # <<>> /\ now[1] = ".." /\ Depths(path)[i] < 0
        /\ Outside(path, i - 1) => now # <<>> /\ now[1] = ".."
    <3>1. CASE segment \in {"", "."}
      <4>1. Descent(segment) = 0 /\ Follow(sofar, segment) = sofar
        BY <3>1 DEF Follow, Descent
      <4>2. now = sofar /\ Depths(path)[i] = depth
        BY <2>1, <2>2, <4>1
      <4> QED
        BY <2>1, <2>3, <2>4, <4>2
    <3>2. CASE segment = ".." /\ sofar # <<>> /\ Last(sofar) # ".."
      <4>1. now = SubSeq(sofar, 1, Len(sofar) - 1) /\ Depths(path)[i] = depth - 1
        BY <2>1, <2>2, <3>2 DEF Follow, Descent, Front
      <4>2. Len(sofar) \in Nat \ {0} /\ \A j \in 1..Len(sofar) - 1 : sofar[j] \in S
        BY <2>1, <3>2
      <4>3. /\ now \in Seq(S) /\ Len(now) = Len(sofar) - 1
            /\ \A j \in 1..Len(now) : now[j] = sofar[j]
        <5> DEFINE last == Len(sofar) - 1
        <5>1. last \in Nat /\ now = SubSeq(sofar, 1, last) /\ \A j \in 1..last : sofar[j] \in S
          BY <4>1, <4>2
        <5> HIDE DEF last
        <5>2. /\ SubSeq(sofar, 1, last) \in Seq(S)
              /\ Len(SubSeq(sofar, 1, last)) = IF 1 <= last THEN last - 1 + 1 ELSE 0
              /\ \A j \in 1..last - 1 + 1 : SubSeq(sofar, 1, last)[j] = sofar[1 + j - 1]
          BY <5>1, SubSeqProperties
        <5>3. Len(now) = last
          BY <5>1, <5>2
        <5>4. \A j \in 1..last : now[j] = sofar[j]
          BY <5>1, <5>2
        <5> QED
          BY <5>1, <5>2, <5>3, <5>4 DEF last
      <4>4. Outside(path, i - 1) => Len(sofar) > 1
        BY <2>4, <3>2, <4>2 DEF Last
      <4>5. now # <<>> <=> Len(now) # 0
        BY <4>3
      <4> QED
        BY <2>1, <2>3, <2>4, <4>1, <4>2, <4>3, <4>4, <4>5
    <3>3. CASE segment = ".." /\ ~(sofar # <<>> /\ Last(sofar) # "..")
      <4>1. now = Append(sofar, "..") /\ Depths(path)[i] = depth - 1
        BY <2>1, <2>2, <3>3 DEF Follow, Descent
      <4>2. Within(path, i - 1) => sofar = <<>>
        BY <2>1, <2>3, <3>3 DEF Last
      <4> QED
        BY <2>1, <2>3, <2>4, <3>3, <4>1, <4>2
    <3>4. CASE segment \notin {"", ".", ".."}
      <4>1. now = Append(sofar, segment) /\ Depths(path)[i] = depth + 1
        BY <2>1, <2>2, <3>4 DEF Follow, Descent
      <4>2. /\ now \in Seq(S) /\ now # <<>> /\ Len(now) = Len(sofar) + 1 /\ Len(sofar) \in Nat
            /\ now[Len(sofar) + 1] = segment /\ \A j \in 1..Len(sofar) : now[j] = sofar[j]
        BY <2>1, <4>1
      <4>3. CASE Within(path, i - 1)
        <5>1. Len(now) = Depths(path)[i]
          BY <2>1, <2>3, <4>1, <4>2, <4>3
        <5>2. \A j \in 1..Len(now) : j \in 1..Len(sofar) \/ j = Len(sofar) + 1
          BY <4>2
        <5>4. \A j \in 1..Len(now) : now[j] # ".."
          BY <2>3, <3>4, <4>2, <4>3, <5>2
        <5>3. ~Outside(path, i - 1) \/ (sofar # <<>> /\ now[1] = "..")
          BY <2>1, <2>4, <4>2
        <5> QED
          BY <2>1, <4>1, <4>2, <5>1, <5>4, <5>3
      <4>4. CASE ~Within(path, i - 1)
        BY <2>1, <2>4, <4>1, <4>2, <4>4
      <4> QED
        BY <4>3, <4>4
    <3> QED
      BY <3>1, <3>2, <3>3, <3>4
  \* ... tells where the path is, and has been.
  <2>6. CASE Within(path, i - 1)
    <3>1. \A m \in 0..i : m = i \/ Depths(path)[m] >= 0
      BY <2>6 DEF Within
    <3>2. now \in Seq(S) => Len(now) >= 0
      OBVIOUS
    <3> QED
      BY <2>5, <2>6, <3>1, <3>2 DEF Within, Outside, now
  <2>7. CASE Outside(path, i - 1)
    <3>1. \E m \in 1..i : Depths(path)[m] < 0
      BY <2>7 DEF Outside
    <3> QED
      BY <2>5, <2>7, <3>1 DEF Outside, now
  <2> QED
    BY <2>1, <2>6, <2>7
<1>4. 0..N \subseteq Good
  <2> HIDE DEF Good, N
  <2> QED
    BY <1>1, <1>2, <1>3, UpTo
<1> QED
  BY <1>4

\* A path that does not begin with a '/'.
Relative(path) == Head(path) # ""

LEMMA HeadIsFirst ==
  ASSUME NEW S, NEW s \in Seq(S), s # <<>>
  PROVE  Len(s) \in Nat \ {0} /\ Head(s) = s[1]
<1>1. Len(s) \in Nat \ {0}
  BY EmptySeq
<1> QED
  BY <1>1

\* The device looks at where the whole path leads in the end, after it is
\* normalized; that tells whether any part of it leads out of the release.
THEOREM DeviceRefusesWhatLeaves ==
  ASSUME NEW S, NEW path \in Seq(S), path # <<>>, Relative(path)
  PROVE  DeviceAccepts(path) <=> StaysInside(path)
<1> DEFINE N == Len(path)
           normal == Normals(path)[N]
<1>1. N \in Nat \ {0} /\ N \in 0..Len(path) /\ DOMAIN path = 1..N
  <2>1. Len(path) \in Nat \ {0}
    BY HeadIsFirst
  <2> QED
    BY <2>1, LenProperties
<1>2. path # <<"">>
  <2>1. Head(<<"">>) = ""
    OBVIOUS
  <2> QED
    BY <2>1 DEF Relative
<1> HIDE DEF N
<1>3. normal \in Seq(S) /\ (Within(path, N) \/ Outside(path, N))
  BY <1>1, WithinOrOutside
<1>4. \A n \in 1..N : Depths(path)[n] \in Int
  BY <1>1, WithinOrOutside DEF N
<1>5. DeviceAccepts(path) <=> normal = <<>> \/ Head(normal) # ".."
  BY <1>2 DEF DeviceAccepts, Normalize, N, Relative
<1>6. StaysInside(path) <=> \A n \in 1..N : Depths(path)[n] >= 0
  BY <1>1 DEF StaysInside, Relative
<1>7. CASE Within(path, N)
  <2>1. /\ \A i \in 1..Len(normal) : normal[i] # ".."
        /\ \A n \in 0..N : Depths(path)[n] >= 0
    BY <1>7 DEF Within
  <2> HIDE DEF normal
  <2>2. normal = <<>> \/ Head(normal) # ".."
    <3>1. CASE normal # <<>>
      <4>1. Len(normal) \in Nat \ {0} /\ Head(normal) = normal[1]
        BY <1>3, <3>1, HeadIsFirst
      <4> QED
        BY <2>1, <4>1
    <3> QED
      BY <3>1
  <2>3. \A n \in 1..N : n \in 0..N
    BY <1>1
  <2> QED
    BY <1>5, <1>6, <2>1, <2>2, <2>3
<1>8. CASE Outside(path, N)
  <2>1. /\ normal # <<>> /\ normal[1] = ".."
        /\ \E m \in 1..N : Depths(path)[m] < 0
    BY <1>8 DEF Outside
  <2> HIDE DEF normal
  <2>2. Head(normal) = ".."
    BY <1>3, <2>1, HeadIsFirst
  <2>3. \E m \in 1..N : ~(Depths(path)[m] >= 0)
    BY <1>1, <1>4, <2>1
  <2> QED
    BY <1>5, <1>6, <2>1, <2>2, <2>3
<1> QED
  BY <1>3, <1>7, <1>8

\* No path the server lets through leaves the release directory, or is refused
\* by the device.
THEOREM AcceptedStaysInside ==
  ASSUME NEW S, NEW path \in Seq(S), path # <<>>, ServerAccepts(path)
  PROVE  DeviceAccepts(path) /\ StaysInside(path)
<1> DEFINE N == Len(path)
           Good == {n \in 0..N : Depths(path)[n] \in Nat}
<1>1. N \in Nat /\ DOMAIN path = 1..N /\ Depths(path)[0] = 0
  BY DepthsDefined
<1>2. ASSUME NEW n \in 1..N, n - 1 \in Good PROVE n \in Good
  <2>1. path[n] # ".."
    BY DEF ServerAccepts, Contains
  <2>2. Descent(path[n]) \in {0, 1}
    BY <2>1 DEF Descent
  <2>3. Depths(path)[n] = Depths(path)[n - 1] + Descent(path[n])
    BY DepthsDefined
  <2> QED
    BY <1>2, <2>2, <2>3
<1>3. 0..N \subseteq Good
  <2>1. 0 \in Good
    BY <1>1
  <2> HIDE DEF Good, N
  <2> QED
    BY <1>1, <1>2, <2>1, UpTo
<1>4. \A n \in 1..N : Depths(path)[n] >= 0
  BY <1>1, <1>3
<1>5. Relative(path)
  BY DEF ServerAccepts, Relative
<1>6. StaysInside(path)
  BY <1>1, <1>4, <1>5 DEF StaysInside, Relative
<1> QED
  BY <1>5, <1>6, DeviceRefusesWhatLeaves

-----------------------------------------------------------------------------
(* The types and the invariants of a rollout                               *)

Hashes == Contents \cup {Nothing}
Positions == Nat \ {0}
Versions == [Seconds -> [Places -> Hashes \cup {Torn}]]

Processes ==
  [phase : Phases, kind : Kinds \cup {"none"}, loaded : BOOLEAN,
   group : Groups \cup {AnyGroup}, files : FileLists \cup {<<>>},
   id : Seconds \cup {NoTime}, hashes : [Places -> Hashes],
   next : Positions, update : Updates \cup {NoUpdate}, outcome : {"none", "ok", "failed"}]

Works == [request : Requests \cup {"none"}, next : Positions]

RolloutTypes ==
  /\ source \in [Places -> Contents]
  /\ objects \in [Seconds -> [Places -> Hashes]]
  /\ cli \in [Requests -> Processes]
  /\ work \in [Queues -> Works]
  /\ cached \in [Queues -> Versions]
  /\ document \in [Queues -> JsonObjects]

\* A process has sent its request exactly from the moment it waits for the
\* answer, and is nothing but its outcome if it ends before.
Sends(r) ==
  /\ cli[r].phase \in {"start", "confirm", "hash", "upload", "post"} => asked[r] = "none"
  /\ cli[r].phase = "wait" => asked[r] # "none"
  /\ asked[r] # "none" => asked[r] = cli[r].group /\ cli[r].phase \in {"wait", "done"}
  /\ cli[r].kind = "none" <=> cli[r].phase = "new" \/ (cli[r].phase = "done" /\ asked[r] = "none")
  /\ cli[r].kind = "update_configuration" => cli[r].update \in Updates
  /\ \A q \in Queues : sends[r][q] # "none" => Valid(r)

\* A deployment has a list of files, and is at one of them while it reads them.
Listed(r) ==
  /\ cli[r].kind = "deploy" => cli[r].files \in FileLists
  /\ IF cli[r].phase \in {"hash", "upload"} THEN cli[r].next \in DOMAIN cli[r].files
                                            ELSE cli[r].next = 1

\* What a deployment has put into the store so far.
Stored(r) ==
  /\ cli[r].phase \in {"hash", "upload"} => cli[r].kind = "deploy"
  /\ cli[r].phase = "confirm" => cli[r].kind # "deploy"
  /\ cli[r].kind = "deploy" /\ cli[r].phase # "start" =>
       /\ cli[r].id \in Seconds
       /\ \A n \in DOMAIN cli[r].files :
            \/ cli[r].phase = "hash" \/ (cli[r].phase = "upload" /\ n >= cli[r].next)
            \/ objects[cli[r].id][cli[r].files[n]] # Nothing

\* A destructive command past its beginning has a scope the operator named.
Scoped(r) == Destructive(r) /\ cli[r].phase # "start" => ScopeKnown(r)

Told(r) ==
  /\ cli[r].outcome # "none" => cli[r].phase = "done"
  /\ cli[r].outcome = "ok" => response[r] = "accepted"

Sound(r) == Sends(r) /\ Listed(r) /\ Stored(r) /\ Scoped(r) /\ Told(r)

CliInv == \A r \in Requests : Sound(r)

\* A download is of a message in the queue, which has what was fetched so far.
Downloading(q) ==
  /\ Idle(q) => work[q].next = 1
  /\ ~Idle(q) =>
       /\ work[q].request \in inbox[q] /\ Message(q).kind = "deploy"
       /\ work[q].next <= Len(Message(q).files) + 1
       /\ \A n \in DOMAIN Message(q).files : n < work[q].next =>
            LET place == Message(q).files[n]
            IN cached[q][Message(q).id][place] = Message(q).hashes[place]

DeviceInv == \A q \in Queues : Downloading(q)

RolloutInv == RolloutTypes /\ CliInv /\ DeviceInv

-----------------------------------------------------------------------------
LEMMA ListsAreSequences ==
  ASSUME NEW files \in FileLists
  PROVE  /\ Len(files) \in Positions /\ DOMAIN files = 1..Len(files)
         /\ \A n \in DOMAIN files : files[n] \in Places
<1>1. files \in Seq(Places) /\ files # <<>>
  BY FilesAssumption
<1> QED
  BY <1>1, EmptySeq, LenProperties, ElementOfSeq DEF Positions

LEMMA FirstPosition == 1 \in Positions /\ \A n \in Positions : n + 1 \in Positions
BY DEF Positions

LEMMA SomeHashes ==
  /\ Nothing \in Hashes /\ Empty \in [Places -> Hashes]
  /\ \A c \in Contents : c \in Hashes /\ c # Nothing
BY BoundsAssumption DEF Hashes, Contents, Nothing, Empty

LEMMA NewProcessType == NewProcess \in Processes
BY FirstPosition, SomeHashes DEF NewProcess, Processes, Phases

\* One process changes, the others stay what they were.
LEMMA OneChanges ==
  ASSUME cli \in [Requests -> Processes], NEW r \in Requests, NEW p \in Processes,
         cli' = [cli EXCEPT ![r] = p]
  PROVE  /\ cli' \in [Requests -> Processes] /\ cli'[r] = p
         /\ \A s \in Requests : s # r => cli'[s] = cli[s]
OBVIOUS

\* What the two processes run is the same.
SameCommand(p, o) ==
  /\ p.kind = o.kind /\ p.loaded = o.loaded /\ p.group = o.group /\ p.update = o.update
  /\ p.files = o.files

SameRelease(p, o) == p.id = o.id /\ p.hashes = o.hashes

\* A process that ends is left with what it sent.
LEMMA ProcessEnds ==
  ASSUME NEW o \in Processes, NEW outcome \in {"ok", "failed"}, NEW p,
         p = [o EXCEPT !.phase = "done", !.outcome = outcome, !.next = 1]
  PROVE  /\ p \in Processes /\ p.phase = "done" /\ p.outcome = outcome /\ p.next = 1
         /\ SameCommand(p, o) /\ SameRelease(p, o)
<1>1. 1 \in Positions
  BY FirstPosition
<1>2. p \in Processes
  BY <1>1 DEF Processes, Phases
<1>3. p.phase = "done" /\ p.outcome = outcome /\ p.next = 1
  BY DEF Processes
<1>4. SameCommand(p, o) /\ SameRelease(p, o)
  BY DEF Processes, SameCommand, SameRelease
<1> QED
  BY <1>2, <1>3, <1>4

LEMMA ExitsEffect ==
  ASSUME cli \in [Requests -> Processes], NEW r \in Requests,
         NEW outcome \in {"ok", "failed"}, Exits(r, outcome)
  PROVE  /\ cli' \in [Requests -> Processes]
         /\ \A s \in Requests : s # r => cli'[s] = cli[s]
         /\ cli'[r].phase = "done" /\ cli'[r].outcome = outcome /\ cli'[r].next = 1
         /\ asked[r] = "none" => cli'[r].kind = "none"
         /\ asked[r] # "none" => SameCommand(cli'[r], cli[r]) /\ SameRelease(cli'[r], cli[r])
<1> DEFINE o == IF asked[r] = "none" THEN NewProcess ELSE cli[r]
           p == [o EXCEPT !.phase = "done", !.outcome = outcome, !.next = 1]
<1>1. cli' = [cli EXCEPT ![r] = p]
  BY DEF Exits
<1>2. o \in Processes
  BY NewProcessType
<1>3. /\ asked[r] = "none" => o.kind = "none"
      /\ asked[r] # "none" => o = cli[r]
  BY DEF NewProcess
<1> HIDE DEF o
<1>4. /\ p \in Processes /\ p.phase = "done" /\ p.outcome = outcome /\ p.next = 1
      /\ SameCommand(p, o) /\ SameRelease(p, o)
  BY <1>2, ProcessEnds
<1> HIDE DEF p
<1>5. p.kind = o.kind
  BY <1>4 DEF SameCommand
<1> QED
  BY <1>1, <1>3, <1>4, <1>5, OneChanges

\* A process that starts has a command of the operators and one of their scopes.
LEMMA InvokeEffect ==
  ASSUME cli \in [Requests -> Processes], NEW r \in Requests, Invoke(r)
  PROVE  /\ cli' \in [Requests -> Processes]
         /\ \A s \in Requests : s # r => cli'[s] = cli[s]
         /\ cli'[r].phase = "start" /\ cli'[r].outcome = cli[r].outcome
         /\ cli'[r].kind \in Kinds
         /\ cli'[r].kind = "update_configuration" => cli'[r].update \in Updates
         /\ cli'[r].kind = "deploy" => cli'[r].files \in FileLists
         /\ cli'[r].next = cli[r].next
<1>1. PICK kind \in Commands, s \in Settings :
        \E update \in IF kind = "update_configuration" THEN Updates ELSE {NoUpdate},
           files \in IF kind = "deploy" THEN FileLists ELSE {<<>>} :
          cli' = [cli EXCEPT ![r] =
                    [@ EXCEPT !.phase = "start", !.kind = kind, !.update = update,
                              !.files = files,
                              !.loaded = (kind = "clean_old_version" => ~LoadWarning(s.file)),
                              !.group = TargetGroup(s.file, s.arguments)]]
  BY DEF Invoke
<1>2. PICK update \in IF kind = "update_configuration" THEN Updates ELSE {NoUpdate},
           files \in IF kind = "deploy" THEN FileLists ELSE {<<>>} :
        cli' = [cli EXCEPT ![r] =
                  [@ EXCEPT !.phase = "start", !.kind = kind, !.update = update,
                            !.files = files,
                            !.loaded = (kind = "clean_old_version" => ~LoadWarning(s.file)),
                            !.group = TargetGroup(s.file, s.arguments)]]
  BY <1>1
<1> DEFINE loaded == (kind = "clean_old_version" => ~LoadWarning(s.file))
           group == TargetGroup(s.file, s.arguments)
           p == [cli[r] EXCEPT !.phase = "start", !.kind = kind, !.update = update,
                               !.files = files, !.loaded = loaded, !.group = group]
<1>3. cli' = [cli EXCEPT ![r] = p]
  BY <1>2
<1>4. loaded \in BOOLEAN
  BY DEF LoadWarning
<1>5. group \in Groups \cup {AnyGroup}
  BY SettingsAssumption
<1> HIDE DEF loaded, group
<1>6. /\ kind \in Kinds /\ update \in Updates \cup {NoUpdate}
      /\ files \in FileLists \cup {<<>>}
  BY CommandsAssumption
<1>7. cli[r] \in Processes
  OBVIOUS
<1>8. p \in Processes
  BY <1>4, <1>5, <1>6, <1>7 DEF Processes, Phases
<1>9. /\ p.phase = "start" /\ p.outcome = cli[r].outcome /\ p.kind = kind /\ p.update = update
      /\ p.files = files /\ p.next = cli[r].next
  BY <1>7 DEF Processes
<1> HIDE DEF p
<1> QED
  BY <1>3, <1>6, <1>8, <1>9, OneChanges

\* A process in another phase runs the same command.
LEMMA BecomesEffect ==
  ASSUME cli \in [Requests -> Processes], NEW r \in Requests, NEW phase \in Phases,
         Becomes(r, phase)
  PROVE  /\ cli' \in [Requests -> Processes]
         /\ \A s \in Requests : s # r => cli'[s] = cli[s]
         /\ cli'[r].phase = phase /\ cli'[r].outcome = cli[r].outcome /\ cli'[r].next = 1
         /\ SameCommand(cli'[r], cli[r]) /\ SameRelease(cli'[r], cli[r])
<1> DEFINE p == [cli[r] EXCEPT !.phase = phase, !.next = 1]
<1>1. cli' = [cli EXCEPT ![r] = p]
  BY DEF Becomes
<1>2. /\ p \in Processes /\ p.phase = phase /\ p.outcome = cli[r].outcome /\ p.next = 1
      /\ SameCommand(p, cli[r]) /\ SameRelease(p, cli[r])
  BY FirstPosition DEF Processes, SameCommand, SameRelease
<1> HIDE DEF p
<1> QED
  BY <1>1, <1>2, OneChanges

LEMMA DeployBeginsEffect ==
  ASSUME cli \in [Requests -> Processes], NEW r \in Requests, DeployBegins(r)
  PROVE  /\ cli' \in [Requests -> Processes]
         /\ \A s \in Requests : s # r => cli'[s] = cli[s]
         /\ cli'[r].phase = "hash" /\ cli'[r].outcome = cli[r].outcome
         /\ cli'[r].id \in Seconds /\ cli'[r].next = cli[r].next
         /\ SameCommand(cli'[r], cli[r])
<1>1. PICK second \in Seconds : cli' = [cli EXCEPT ![r].phase = "hash", ![r].id = second]
  BY DEF DeployBegins
<1> DEFINE p == [cli[r] EXCEPT !.phase = "hash", !.id = second]
<1>2. cli' = [cli EXCEPT ![r] = p]
  BY <1>1
<1>3. /\ p \in Processes /\ p.phase = "hash" /\ p.outcome = cli[r].outcome
      /\ p.id = second /\ p.next = cli[r].next /\ SameCommand(p, cli[r])
  BY DEF Processes, Phases, SameCommand
<1> HIDE DEF p
<1> QED
  BY <1>2, <1>3, OneChanges

\* One file of the list after the other.
LEMMA AtPlace ==
  ASSUME RolloutTypes, NEW r \in Requests, Listed(r),
         cli[r].kind = "deploy", cli[r].phase \in {"hash", "upload"}
  PROVE  /\ cli[r].files \in FileLists /\ cli[r].next \in Positions
         /\ Len(cli[r].files) \in Positions /\ DOMAIN cli[r].files = 1..Len(cli[r].files)
         /\ cli[r].next <= Len(cli[r].files) /\ Place(r) \in Places
<1>1. cli[r].files \in FileLists /\ cli[r].next \in DOMAIN cli[r].files
  BY DEF Listed
<1>2. /\ Len(cli[r].files) \in Positions /\ DOMAIN cli[r].files = 1..Len(cli[r].files)
      /\ \A n \in DOMAIN cli[r].files : cli[r].files[n] \in Places
  BY <1>1, ListsAreSequences
<1> QED
  BY <1>1, <1>2 DEF Place, Positions

\* On to the next file, or to the first in the next phase.
Advances(r, phase) ==
  IF AtLast(r) THEN cli'[r].phase = phase /\ cli'[r].next = 1
               ELSE cli'[r].phase = cli[r].phase /\ cli'[r].next = cli[r].next + 1

LEMMA HashFileEffect ==
  ASSUME RolloutTypes, NEW r \in Requests, HashFile(r), Place(r) \in Places
  PROVE  /\ cli' \in [Requests -> Processes]
         /\ \A s \in Requests : s # r => cli'[s] = cli[s]
         /\ Advances(r, "upload") /\ cli'[r].outcome = cli[r].outcome
         /\ cli'[r].id = cli[r].id
         /\ SameCommand(cli'[r], cli[r])
<1> DEFINE hash == source[Place(r)]
           hashes == [cli[r].hashes EXCEPT ![Place(r)] = hash]
           phase == IF AtLast(r) THEN "upload" ELSE cli[r].phase
           next == IF AtLast(r) THEN 1 ELSE cli[r].next + 1
           p == [cli[r] EXCEPT !.hashes = hashes, !.phase = phase, !.next = next]
<1>1. cli' = [cli EXCEPT ![r] = p]
  BY DEF HashFile, RolloutTypes
<1>2. hash \in Hashes
  BY SomeHashes DEF RolloutTypes
<1> HIDE DEF hash
<1>3. hashes \in [Places -> Hashes]
  BY <1>2 DEF RolloutTypes, Processes
<1>4. phase \in {"hash", "upload"}
  BY DEF HashFile, In
<1>5. next \in Positions
  BY FirstPosition DEF RolloutTypes, Processes
<1>6. /\ AtLast(r) => phase = "upload" /\ next = 1
      /\ ~AtLast(r) => phase = cli[r].phase /\ next = cli[r].next + 1
  OBVIOUS
<1> HIDE DEF hashes, phase, next
<1>7. cli[r] \in Processes
  BY DEF RolloutTypes
<1>8. p \in Processes
  BY <1>3, <1>4, <1>5, <1>7 DEF Processes, Phases
<1>9. /\ p.phase = phase /\ p.outcome = cli[r].outcome /\ p.next = next
      /\ p.id = cli[r].id /\ SameCommand(p, cli[r])
  BY <1>7 DEF Processes, SameCommand
<1> HIDE DEF p
<1> QED
  BY <1>1, <1>6, <1>8, <1>9, OneChanges DEF RolloutTypes, Advances

LEMMA UploadFileEffect ==
  ASSUME RolloutTypes, NEW r \in Requests, UploadFile(r)
  PROVE  /\ cli' \in [Requests -> Processes]
         /\ \A s \in Requests : s # r => cli'[s] = cli[s]
         /\ Advances(r, "post") /\ cli'[r].outcome = cli[r].outcome
         /\ SameCommand(cli'[r], cli[r]) /\ SameRelease(cli'[r], cli[r])
<1> DEFINE phase == IF AtLast(r) THEN "post" ELSE cli[r].phase
           next == IF AtLast(r) THEN 1 ELSE cli[r].next + 1
           p == [cli[r] EXCEPT !.phase = phase, !.next = next]
<1>1. cli' = [cli EXCEPT ![r] = p]
  BY DEF UploadFile, RolloutTypes
<1>2. phase \in {"upload", "post"}
  BY DEF UploadFile, In
<1>3. next \in Positions
  BY FirstPosition DEF RolloutTypes, Processes
<1>4. /\ AtLast(r) => phase = "post" /\ next = 1
      /\ ~AtLast(r) => phase = cli[r].phase /\ next = cli[r].next + 1
  OBVIOUS
<1> HIDE DEF phase, next
<1>5. cli[r] \in Processes
  BY DEF RolloutTypes
<1>6. p \in Processes
  BY <1>2, <1>3, <1>5 DEF Processes, Phases
<1>7. /\ p.phase = phase /\ p.outcome = cli[r].outcome /\ p.next = next
      /\ SameCommand(p, cli[r]) /\ SameRelease(p, cli[r])
  BY <1>5 DEF Processes, SameCommand, SameRelease
<1> HIDE DEF p
<1> QED
  BY <1>1, <1>4, <1>6, <1>7, OneChanges DEF RolloutTypes, Advances

-----------------------------------------------------------------------------
\* An object in the store is overwritten at most.
StoreKept ==
  \A id \in Seconds, place \in Places :
    objects[id][place] # Nothing => objects'[id][place] # Nothing

\* What a sent request says does not change any more.
Frozen ==
  \A s \in Requests : asked[s] # "none" =>
    /\ asked'[s] = asked[s]
    /\ SameCommand(cli'[s], cli[s]) /\ SameRelease(cli'[s], cli[s])

\* What a deployment has put into the store stays there.
LEMMA StoredKept ==
  ASSUME NEW s \in Requests, Listed(s), Stored(s), StoreKept,
         cli'[s].kind = cli[s].kind, cli'[s].files = cli[s].files, cli'[s].id = cli[s].id,
         \/ cli'[s].phase = cli[s].phase /\ cli'[s].next = cli[s].next
         \/ cli[s].phase \notin {"start", "hash", "upload"}
            /\ cli'[s].phase \notin {"start", "confirm", "hash", "upload"}
  PROVE  Stored(s)'
<1>1. ASSUME cli[s].kind = "deploy", cli[s].phase # "start",
             NEW n \in DOMAIN cli[s].files, objects[cli[s].id][cli[s].files[n]] # Nothing
      PROVE  objects'[cli[s].id][cli[s].files[n]] # Nothing
  <2>1. cli[s].files[n] \in Places /\ cli[s].id \in Seconds
    BY <1>1, ListsAreSequences DEF Listed, Stored
  <2> QED
    BY <1>1, <2>1 DEF StoreKept
<1> QED
  BY <1>1 DEF Stored

\* A process that does nothing stays sound while the server and others work.
LEMMA OthersSound ==
  ASSUME RolloutTypes, NEW s \in Requests, Sound(s), StoreKept,
         cli'[s] = cli[s], asked'[s] = asked[s],
         response[s] = "accepted" => response'[s] = "accepted",
         \A q \in Queues : sends'[s][q] # "none" => sends[s][q] # "none"
  PROVE  Sound(s)'
<1> USE DEF Sound
<1>1. Sends(s)'
  BY DEF Sends, Valid
<1>2. Listed(s)'
  BY DEF Listed
<1>3. Stored(s)'
  BY StoredKept
<1>4. Scoped(s)'
  BY DEF Scoped, Destructive, ScopeKnown
<1>5. Told(s)'
  BY DEF Told
<1> QED
  BY <1>1, <1>2, <1>3, <1>4, <1>5

LEMMA ApiKept ==
  ASSUME UNCHANGED apiVars
  PROVE  /\ asked' = asked /\ sends' = sends /\ response' = response /\ inbox' = inbox
         /\ executed' = executed /\ reported' = reported
BY DEF apiVars, fanoutVars, deviceVars

\* Only r's process moves, and nothing is sent.
LEMMA LocalStep ==
  ASSUME RolloutTypes, CliInv, NEW r \in Requests, UNCHANGED apiVars, StoreKept,
         \A s \in Requests : s # r => cli'[s] = cli[s],
         Sound(r)'
  PROVE  CliInv'
<1>1. ASSUME NEW s \in Requests, s # r PROVE Sound(s)'
  BY <1>1, ApiKept, OthersSound DEF CliInv
<1> QED
  BY <1>1 DEF CliInv

LEMMA ExitsPreserves ==
  ASSUME RolloutTypes, CliInv, NEW r \in Requests, UNCHANGED apiVars, StoreKept,
         NEW outcome \in {"ok", "failed"}, Exits(r, outcome),
         outcome = "ok" => response[r] = "accepted"
  PROVE  cli' \in [Requests -> Processes] /\ CliInv' /\ Frozen
<1>1. /\ cli' \in [Requests -> Processes]
      /\ \A s \in Requests : s # r => cli'[s] = cli[s]
      /\ cli'[r].phase = "done" /\ cli'[r].outcome = outcome /\ cli'[r].next = 1
      /\ asked[r] = "none" => cli'[r].kind = "none"
      /\ asked[r] # "none" => SameCommand(cli'[r], cli[r]) /\ SameRelease(cli'[r], cli[r])
  BY ExitsEffect DEF RolloutTypes
<1>2. Sound(r)
  BY DEF CliInv
<1>3. Frozen
  BY <1>1, ApiKept DEF Frozen, SameCommand, SameRelease
<1>4. Told(r)'
  BY <1>1, ApiKept DEF Told
<1>5. ASSUME asked[r] = "none" PROVE Sound(r)'
  BY <1>1, <1>4, <1>5, ApiKept DEF Sound, Sends, Listed, Stored, Scoped, Valid, Destructive
<1>6. ASSUME asked[r] # "none" PROVE Sound(r)'
  <2>1. SameCommand(cli'[r], cli[r]) /\ SameRelease(cli'[r], cli[r])
    BY <1>1, <1>6
  <2>2. cli[r].phase \in {"wait", "done"} /\ cli[r].kind # "none"
    BY <1>2, <1>6 DEF Sound, Sends
  <2>3. Sends(r)'
    BY <1>1, <1>2, <1>6, <2>1, <2>2, ApiKept DEF Sound, Sends, Valid, SameCommand
  <2>6. Listed(r)'
    BY <1>1, <1>2, <2>1, <2>2 DEF Sound, Listed, SameCommand
  <2>4. Stored(r)'
    BY <1>1, <1>2, <2>1, <2>2, StoredKept DEF Sound, SameCommand, SameRelease
  <2>5. Scoped(r)'
    BY <1>1, <1>2, <2>1, <2>2 DEF Sound, Scoped, Destructive, ScopeKnown, SameCommand
  <2> QED
    BY <1>4, <2>3, <2>4, <2>5, <2>6 DEF Sound
<1>7. Sound(r)'
  BY <1>5, <1>6
<1> QED
  BY <1>1, <1>3, <1>7, LocalStep

\* A process that sent nothing has no goroutine at work for it.
LEMMA NotAsked ==
  ASSUME Addressed, NEW r \in Requests, asked[r] = "none"
  PROVE  \A q \in Queues : sends[r][q] = "none"
BY DEF Addressed

LEMMA InvokePreserves ==
  ASSUME RolloutTypes, Addressed, CliInv, NEW r \in Requests, Invoke(r)
  PROVE  cli' \in [Requests -> Processes] /\ CliInv' /\ Frozen
<1>1. /\ cli' \in [Requests -> Processes]
      /\ \A s \in Requests : s # r => cli'[s] = cli[s]
      /\ cli'[r].phase = "start" /\ cli'[r].outcome = cli[r].outcome
      /\ cli'[r].kind \in Kinds
      /\ cli'[r].kind = "update_configuration" => cli'[r].update \in Updates
      /\ cli'[r].kind = "deploy" => cli'[r].files \in FileLists
      /\ cli'[r].next = cli[r].next
  BY InvokeEffect DEF RolloutTypes
<1>2. Sound(r)
  BY DEF CliInv
<1>3. cli[r].phase = "new" /\ UNCHANGED apiVars /\ objects' = objects
  BY DEF Invoke, In, CliOnly
<1>4. asked[r] = "none" /\ cli[r].outcome = "none"
  BY <1>2, <1>3 DEF Sound, Sends, Told
<1>5. cli'[r].kind # "none"
  BY <1>1 DEF Kinds
<1>6. Sends(r)'
  BY <1>1, <1>3, <1>4, <1>5, ApiKept, NotAsked DEF Sends
<1>7. Listed(r)' /\ Stored(r)' /\ Scoped(r)' /\ Told(r)'
  BY <1>1, <1>2, <1>3, <1>4 DEF Sound, Listed, Stored, Scoped, Told
<1> QED
  BY <1>1, <1>3, <1>4, <1>6, <1>7, ApiKept, LocalStep
  DEF Sound, Frozen, StoreKept, SameCommand, SameRelease

\* A command moves on, to where it sends its request.
LEMMA CommandPreserves ==
  ASSUME RolloutTypes, CliInv, NEW r \in Requests, CommandBegins(r) \/ Confirmed(r)
  PROVE  cli' \in [Requests -> Processes] /\ CliInv' /\ Frozen
<1>1. PICK phase \in {"confirm", "post"} : Becomes(r, phase)
  BY DEF CommandBegins, Confirmed
<1>2. /\ cli[r].phase \in {"start", "confirm"} /\ cli[r].kind # "deploy"
      /\ Destructive(r) => ScopeKnown(r)
      /\ UNCHANGED apiVars /\ objects' = objects
  BY DEF CommandBegins, Confirmed, In, CliOnly, CliInv, Sound, Stored, Scoped
<1>3. /\ cli' \in [Requests -> Processes]
      /\ \A s \in Requests : s # r => cli'[s] = cli[s]
      /\ cli'[r].phase = phase /\ cli'[r].outcome = cli[r].outcome /\ cli'[r].next = 1
      /\ SameCommand(cli'[r], cli[r]) /\ SameRelease(cli'[r], cli[r])
  BY <1>1, BecomesEffect DEF RolloutTypes, Phases
<1>4. Sound(r)
  BY DEF CliInv
<1>5. asked[r] = "none" /\ cli[r].outcome = "none" /\ cli[r].kind # "none"
  BY <1>2, <1>4 DEF Sound, Sends, Told
<1>6. Sends(r)'
  BY <1>2, <1>3, <1>4, <1>5, ApiKept DEF Sound, Sends, Valid, SameCommand
<1>7. Listed(r)' /\ Stored(r)'
  BY <1>2, <1>3 DEF Listed, Stored, SameCommand
<1>8. Scoped(r)'
  BY <1>2, <1>3 DEF Scoped, Destructive, ScopeKnown, SameCommand
<1>9. Told(r)'
  BY <1>3, <1>5 DEF Told
<1>10. Frozen /\ StoreKept
  BY <1>2, <1>3, <1>5, ApiKept DEF Frozen, StoreKept, SameCommand, SameRelease
<1> QED
  BY <1>2, <1>3, <1>6, <1>7, <1>8, <1>9, <1>10, LocalStep DEF Sound

\* A deployment reads its files ...
LEMMA HashesPreserve ==
  ASSUME RolloutTypes, CliInv, NEW r \in Requests, DeployBegins(r) \/ HashFile(r)
  PROVE  cli' \in [Requests -> Processes] /\ CliInv' /\ Frozen
<1>1. Sound(r)
  BY DEF CliInv
<1>2. /\ cli[r].phase \in {"start", "hash"} /\ cli[r].kind = "deploy"
      /\ UNCHANGED apiVars /\ objects' = objects
  BY <1>1 DEF DeployBegins, HashFile, In, CliOnly, Sound, Stored
<1>3. cli[r].files \in FileLists
  BY <1>1, <1>2 DEF Sound, Listed
<1>4. /\ DOMAIN cli[r].files = 1..Len(cli[r].files) /\ Len(cli[r].files) \in Positions
  BY <1>3, ListsAreSequences
<1>5. /\ cli' \in [Requests -> Processes]
      /\ \A s \in Requests : s # r => cli'[s] = cli[s]
      /\ cli'[r].phase \in {"hash", "upload"} /\ cli'[r].outcome = cli[r].outcome
      /\ cli'[r].id \in Seconds /\ cli'[r].next \in DOMAIN cli[r].files
      /\ cli'[r].phase = "upload" => cli'[r].next = 1
      /\ SameCommand(cli'[r], cli[r])
  <2>1. CASE DeployBegins(r)
    <3>1. cli[r].phase = "start" /\ cli[r].next = 1
      BY <1>1, <2>1 DEF DeployBegins, In, Sound, Listed
    <3> QED
      BY <1>4, <2>1, <3>1, DeployBeginsEffect DEF RolloutTypes, Positions
  <2>2. CASE HashFile(r)
    <3>1. cli[r].phase = "hash" /\ cli[r].id \in Seconds
      BY <1>1, <1>2, <2>2 DEF HashFile, In, Sound, Stored
    <3>2. /\ cli[r].next \in Positions /\ cli[r].next <= Len(cli[r].files)
          /\ Place(r) \in Places
      BY <1>1, <1>2, <3>1, AtPlace DEF Sound
    <3>3. /\ cli' \in [Requests -> Processes]
          /\ \A s \in Requests : s # r => cli'[s] = cli[s]
          /\ Advances(r, "upload") /\ cli'[r].outcome = cli[r].outcome
          /\ cli'[r].id = cli[r].id
          /\ SameCommand(cli'[r], cli[r])
      BY <2>2, <3>2, HashFileEffect
    <3>4. /\ cli'[r].phase \in {"hash", "upload"} /\ cli'[r].next \in DOMAIN cli[r].files
          /\ cli'[r].phase = "upload" => cli'[r].next = 1
      <4>1. CASE AtLast(r)
        BY <1>4, <3>3, <4>1 DEF Advances, Positions
      <4>2. CASE ~AtLast(r)
        BY <1>4, <3>1, <3>2, <3>3, <4>2 DEF Advances, AtLast, Positions
      <4> QED
        BY <4>1, <4>2
    <3> QED
      BY <3>1, <3>3, <3>4
  <2> QED
    BY <2>1, <2>2
<1>6. asked[r] = "none" /\ cli[r].outcome = "none"
  BY <1>1, <1>2 DEF Sound, Sends, Told
<1>7. Sends(r)'
  BY <1>1, <1>2, <1>5, <1>6, ApiKept DEF Sound, Sends, Valid, SameCommand
<1>8. Listed(r)'
  BY <1>2, <1>3, <1>5 DEF Listed, SameCommand
<1>9. \A n \in DOMAIN cli[r].files : n >= 1
  BY <1>4 DEF Positions
<1>10. Stored(r)'
  BY <1>2, <1>5, <1>9 DEF Stored, SameCommand
<1>11. Scoped(r)' /\ Told(r)'
  BY <1>2, <1>5, <1>6 DEF Scoped, Told, Destructive, SameCommand
<1>12. Frozen /\ StoreKept
  BY <1>2, <1>5, <1>6, ApiKept DEF Frozen, StoreKept, SameCommand, SameRelease
<1> QED
  BY <1>2, <1>5, <1>7, <1>8, <1>10, <1>11, <1>12, LocalStep DEF Sound

\* ... and uploads them, each before the next, and all before it sends its
\* request.
LEMMA UploadPreserves ==
  ASSUME RolloutTypes, CliInv, NEW r \in Requests, UploadFile(r)
  PROVE  /\ cli' \in [Requests -> Processes] /\ CliInv' /\ Frozen
         /\ objects' \in [Seconds -> [Places -> Hashes]]
<1>1. Sound(r)
  BY DEF CliInv
<1> DEFINE place == Place(r)
           id == cli[r].id
           files == cli[r].files
           n == cli[r].next
<1>2. /\ cli[r].phase = "upload" /\ cli[r].kind = "deploy" /\ id \in Seconds
      /\ \A m \in DOMAIN files : m >= n \/ objects[id][files[m]] # Nothing
  BY <1>1 DEF UploadFile, In, Sound, Stored
<1>3. /\ files \in FileLists /\ n \in Positions /\ Len(files) \in Positions
      /\ DOMAIN files = 1..Len(files) /\ n <= Len(files) /\ place \in Places
  BY <1>1, <1>2, AtPlace DEF Sound
<1>4. /\ UNCHANGED apiVars
      /\ objects' = [objects EXCEPT ![id][place] = source[place]]
      /\ source[place] \in Hashes /\ source[place] # Nothing
  BY <1>3, SomeHashes DEF UploadFile, RolloutTypes
<1>5. /\ cli' \in [Requests -> Processes]
      /\ \A s \in Requests : s # r => cli'[s] = cli[s]
      /\ Advances(r, "post") /\ cli'[r].outcome = cli[r].outcome
      /\ SameCommand(cli'[r], cli[r]) /\ SameRelease(cli'[r], cli[r])
  BY UploadFileEffect
<1>6. place = files[n] /\ (AtLast(r) <=> n = Len(files))
  BY DEF Place, AtLast
<1>7. cli'[r].files = files /\ cli'[r].id = id /\ cli'[r].kind = "deploy"
  BY <1>2, <1>5 DEF SameCommand, SameRelease
<1>8. IF n = Len(files) THEN cli'[r].phase = "post" /\ cli'[r].next = 1
                        ELSE cli'[r].phase = "upload" /\ cli'[r].next = n + 1
  BY <1>2, <1>5, <1>6 DEF Advances
<1>9. \A m \in DOMAIN files : files[m] \in Places
  BY <1>3, ListsAreSequences
<1> HIDE DEF place, id, files, n
<1>10. objects' \in [Seconds -> [Places -> Hashes]]
  BY <1>2, <1>3, <1>4 DEF RolloutTypes
<1>11. StoreKept /\ objects'[id][place] # Nothing
  BY <1>2, <1>3, <1>4 DEF StoreKept, RolloutTypes
<1>12. \A m \in DOMAIN files : m < n + 1 => objects'[id][files[m]] # Nothing
  <2>1. \A m \in DOMAIN files : m < n + 1 => m = n \/ ~(m >= n)
    BY <1>3 DEF Positions
  <2> QED
    BY <1>2, <1>6, <1>9, <1>11, <2>1 DEF StoreKept
<1> DEFINE length == Len(files)
<1>21. n \in Nat /\ n >= 1 /\ n <= length /\ length \in Nat /\ DOMAIN files = 1..length
  BY <1>3 DEF Positions
<1> HIDE DEF length
<1>13. \A m \in DOMAIN files : (n = length => m < n + 1) /\ (m < n + 1 \/ m >= n + 1)
  BY <1>21
<1>14. n # length => n + 1 \in DOMAIN files
  BY <1>21
<1>15. asked[r] = "none" /\ cli[r].outcome = "none"
  BY <1>1, <1>2 DEF Sound, Sends, Told
<1>16. Sends(r)'
  BY <1>1, <1>2, <1>4, <1>5, <1>8, <1>15, ApiKept DEF Sound, Sends, Valid, SameCommand
<1>17. Listed(r)'
  BY <1>3, <1>7, <1>8, <1>14, <1>21 DEF Listed, length
<1>18. Stored(r)'
  BY <1>2, <1>7, <1>8, <1>12, <1>13 DEF Stored, length
<1>19. Scoped(r)' /\ Told(r)'
  BY <1>2, <1>5, <1>7, <1>8, <1>15 DEF Scoped, Told, Destructive
<1>20. Frozen
  BY <1>4, <1>5, <1>15, ApiKept DEF Frozen, SameCommand, SameRelease
<1> QED
  BY <1>4, <1>5, <1>10, <1>11, <1>16, <1>17, <1>18, <1>19, <1>20, LocalStep DEF Sound

\* The request arrives, or is refused.
LEMMA PostPreserves ==
  ASSUME RolloutTypes, ApiInv, Answers, CliInv, NEW r \in Requests, Posts(r)
  PROVE  cli' \in [Requests -> Processes] /\ CliInv' /\ Frozen
<1>1. Sound(r)
  BY DEF CliInv
<1>2. cli[r].phase = "post" /\ asked[r] = "none" /\ response[r] = "none" /\ cli[r].outcome = "none"
  BY <1>1 DEF Posts, In, Sound, Sends, Told, Answers
<1>3. /\ cli' \in [Requests -> Processes]
      /\ \A s \in Requests : s # r => cli'[s] = cli[s]
      /\ cli'[r].phase = "wait" /\ cli'[r].outcome = cli[r].outcome /\ cli'[r].next = 1
      /\ SameCommand(cli'[r], cli[r]) /\ SameRelease(cli'[r], cli[r])
  BY BecomesEffect DEF Posts, RolloutTypes, Phases
<1>4. cli[r].group \in Groups \cup {AnyGroup} /\ cli[r].group # "none"
  BY GroupsAssumption DEF RolloutTypes, Processes
<1>5. /\ asked' = [asked EXCEPT ![r] = cli[r].group] /\ objects' = objects
      /\ response'[r] = "none" => Valid(r)
      /\ \/ response' = [response EXCEPT ![r] = "refused"] /\ sends' = sends
         \/ /\ response' = response
            /\ sends' = [sends EXCEPT ![r] =
                 [q \in Queues |-> IF q \in QueuesForGroup(cli[r].group) THEN "waiting" ELSE "none"]]
  BY DEF Posts, Publish
<1>6. Types
  BY TypesAndSlots DEF ApiInv
<1>7. asked'[r] = cli[r].group /\ \A s \in Requests : s # r => asked'[s] = asked[s]
  BY <1>5, <1>6 DEF Types
<1>8. \A s \in Requests, q \in Queues : s # r => sends'[s][q] = sends[s][q]
  BY <1>5, <1>6 DEF Types
<1>9. \A s \in Requests : s # r => response'[s] = response[s]
  BY <1>5, <1>6 DEF Types
<1>10. ASSUME NEW q \in Queues, sends'[r][q] # "none" PROVE Valid(r)
  <2>1. CASE response' = [response EXCEPT ![r] = "refused"] /\ sends' = sends
    BY <1>2, <1>10, <2>1, NotAsked DEF ApiInv
  <2>2. CASE response' = response
    BY <1>2, <1>5, <2>2
  <2> QED
    BY <1>5, <2>1, <2>2
<1>11. Sends(r)'
  BY <1>1, <1>2, <1>3, <1>4, <1>7, <1>10 DEF Sound, Sends, Valid, SameCommand
<1>12. Listed(r)' /\ Stored(r)'
  BY <1>1, <1>2, <1>3, <1>5 DEF Sound, Listed, Stored, SameCommand, SameRelease
<1>13. Scoped(r)' /\ Told(r)'
  BY <1>1, <1>2, <1>3 DEF Sound, Scoped, Told, Destructive, ScopeKnown, SameCommand
<1>14. StoreKept
  BY <1>5 DEF StoreKept
<1>15. ASSUME NEW s \in Requests, s # r PROVE Sound(s)'
  BY <1>3, <1>7, <1>8, <1>9, <1>14, <1>15, OthersSound DEF CliInv
<1>16. Frozen
  BY <1>2, <1>3, <1>7 DEF Frozen, SameCommand, SameRelease
<1> QED
  BY <1>3, <1>11, <1>12, <1>13, <1>15, <1>16 DEF Sound, CliInv

\* An upload that fails leaves an object or none.
LEMMA UploadFailsPreserves ==
  ASSUME RolloutTypes, CliInv, NEW r \in Requests, UploadFails(r)
  PROVE  /\ cli' \in [Requests -> Processes] /\ CliInv' /\ Frozen
         /\ objects' \in [Seconds -> [Places -> Hashes]]
<1> DEFINE place == Place(r)
           id == cli[r].id
<1>1. id \in Seconds /\ place \in Places
  <2>1. Sound(r) /\ cli[r].phase = "upload"
    BY DEF UploadFails, In, CliInv
  <2> QED
    BY <2>1, AtPlace DEF Sound, Stored
<1>2. /\ UNCHANGED apiVars /\ Exits(r, "failed")
      /\ objects' = objects \/ objects' = [objects EXCEPT ![id][place] = source[place]]
      /\ source[place] \in Hashes /\ source[place] # Nothing
  BY <1>1, SomeHashes DEF UploadFails, RolloutTypes
<1> HIDE DEF place, id
<1>3. CASE objects' = objects
  <2>1. StoreKept
    BY <1>3 DEF StoreKept
  <2> QED
    BY <1>2, <1>3, <2>1, ExitsPreserves DEF RolloutTypes
<1>4. CASE objects' = [objects EXCEPT ![id][place] = source[place]]
  <2>1. objects' \in [Seconds -> [Places -> Hashes]]
    BY <1>1, <1>2, <1>4 DEF RolloutTypes
  <2>2. StoreKept
    BY <1>1, <1>2, <1>4 DEF StoreKept, RolloutTypes
  <2> QED
    BY <1>2, <2>1, <2>2, ExitsPreserves
<1> QED
  BY <1>2, <1>3, <1>4

\* Whatever an invocation of the CLI does, and however it ends.
LEMMA CliPreserves ==
  ASSUME RolloutTypes, ApiInv, Answers, CliInv, NEW r \in Requests,
         Invoke(r) \/ CliStep(r) \/ Killed(r)
  PROVE  RolloutTypes' /\ CliInv' /\ Frozen /\ inbox' = inbox /\ UNCHANGED agentVars
<1>1. source' = source /\ UNCHANGED agentVars
  BY DEF Invoke, CliStep, Killed, GivesUp, CommandBegins, Confirmed, DeployBegins, HashFile,
         UploadFile, UploadFails, Posts, PostFails, Answered, TimesOut, CliOnly, agentVars
<1>2. inbox' = inbox
  BY DEF Invoke, CliStep, Killed, GivesUp, CommandBegins, Confirmed, DeployBegins, HashFile,
         UploadFile, UploadFails, Posts, Publish, PostFails, Answered, TimesOut, CliOnly,
         apiVars, deviceVars
<1> DEFINE Done == /\ cli' \in [Requests -> Processes] /\ CliInv' /\ Frozen
                   /\ objects' \in [Seconds -> [Places -> Hashes]]
<1>3. ASSUME GivesUp(r) \/ PostFails(r) \/ Answered(r) \/ TimesOut(r) \/ Killed(r)
      PROVE  Done
  <2>1. PICK outcome \in {"ok", "failed"} :
          /\ Exits(r, outcome)
          /\ outcome = "ok" => response[r] = "accepted"
          /\ UNCHANGED apiVars /\ objects' = objects
    BY <1>3 DEF GivesUp, PostFails, Answered, Answer, TimesOut, Killed, CliOnly
  <2>2. StoreKept
    BY <2>1 DEF StoreKept
  <2>3. objects' \in [Seconds -> [Places -> Hashes]]
    BY <2>1 DEF RolloutTypes
  <2> QED
    BY <2>1, <2>2, <2>3, ExitsPreserves
<1>4. ASSUME Invoke(r) PROVE Done
  BY <1>4, InvokePreserves DEF ApiInv, Invoke, CliOnly, RolloutTypes
<1>5. ASSUME CommandBegins(r) \/ Confirmed(r) PROVE Done
  BY <1>5, CommandPreserves DEF CommandBegins, Confirmed, CliOnly, RolloutTypes
<1>6. ASSUME DeployBegins(r) \/ HashFile(r) PROVE Done
  BY <1>6, HashesPreserve DEF DeployBegins, HashFile, CliOnly, RolloutTypes
<1>7. ASSUME Posts(r) PROVE Done
  BY <1>7, PostPreserves DEF Posts, RolloutTypes
<1>8. Done
  BY <1>3, <1>4, <1>5, <1>6, <1>7, UploadPreserves, UploadFailsPreserves DEF CliStep
<1> QED
  BY <1>1, <1>2, <1>8 DEF RolloutTypes, agentVars

-----------------------------------------------------------------------------
\* The devices keep what they are at while the rest of the world moves on:
\* the message a download is of does not change.
LEMMA DevicesKept ==
  ASSUME ApiInv, DeviceInv, Frozen, UNCHANGED <<work, cached>>,
         \A q \in Queues : inbox[q] \subseteq inbox'[q]
  PROVE  DeviceInv'
<1>0. ASSUME NEW q \in Queues, ~Idle(q)
      PROVE  /\ work[q].request \in Requests /\ asked[work[q].request] # "none"
             /\ work[q].request \in inbox[q]
  <2>1. work[q].request \in inbox[q]
    BY <1>0 DEF DeviceInv, Downloading
  <2>2. work[q].request \in Requests
    BY <2>1, TypesAndSlots DEF ApiInv, Types
  <2> QED
    BY <2>1, <2>2 DEF ApiInv, Addressed
<1>1. ASSUME NEW q \in Queues, ~Idle(q) PROVE Downloading(q)'
  <2>1. /\ Message(q)'.kind = Message(q).kind /\ Message(q)'.files = Message(q).files
        /\ Message(q)'.id = Message(q).id /\ Message(q)'.hashes = Message(q).hashes
    BY <1>0, <1>1 DEF Message, Frozen, SameCommand, SameRelease
  <2> QED
    BY <1>0, <1>1, <2>1 DEF DeviceInv, Downloading, Idle
<1>2. ASSUME NEW q \in Queues, Idle(q) PROVE Downloading(q)'
  BY <1>2 DEF DeviceInv, Downloading, Idle
<1> QED
  BY <1>1, <1>2 DEF DeviceInv

\* The processes of the CLI do not notice what the devices do.
LEMMA CliKept ==
  ASSUME RolloutTypes, CliInv, UNCHANGED <<operatorVars, fanoutVars>>
  PROVE  CliInv'
<1>1. ASSUME NEW s \in Requests PROVE Sound(s)'
  BY <1>1, OthersSound DEF CliInv, StoreKept, operatorVars, fanoutVars
<1> QED
  BY <1>1 DEF CliInv

\* The goroutines of the server.
LEMMA ServerPreserves ==
  ASSUME RolloutTypes, ApiInv, CliInv, DeviceInv, NEW r \in Requests, ServerStep(r)
  PROVE  RolloutTypes' /\ CliInv' /\ DeviceInv'
<1> USE TypesAndSlots DEF ApiInv
<1>1. UNCHANGED <<operatorVars, agentVars>>
  BY DEF ServerStep
<1> DEFINE WorldKept ==
      /\ asked' = asked
      /\ \A s \in Requests : response[s] = "accepted" => response'[s] = "accepted"
      /\ \A s \in Requests, q \in Queues : sends'[s][q] # "none" => sends[s][q] # "none"
      /\ \A q \in Queues : inbox[q] \subseteq inbox'[q]
<1>2. WorldKept
  <2>1. ASSUME Respond(r) PROVE WorldKept
    BY <2>1 DEF Respond, Types, deviceVars
  <2>2. ASSUME NEW q \in Queues, Acquire(r, q) \/ SendOk(r, q) \/ SendFails(r, q) PROVE WorldKept
    <3>1. PICK state \in SendStates :
            /\ sends[r][q] # "none" /\ sends' = [sends EXCEPT ![r][q] = state]
            /\ asked' = asked /\ response' = response
      BY <2>2 DEF Acquire, SendOk, SendFails, SendStates
    <3>2. \A s \in Requests, p \in Queues : sends'[s][p] # "none" => sends[s][p] # "none"
      BY <3>1 DEF Types
    <3>3. \A p \in Queues : inbox[p] \subseteq inbox'[p]
      BY <2>2 DEF Acquire, SendOk, SendFails, Types, deviceVars
    <3> QED
      BY <3>1, <3>2, <3>3
  <2> QED
    BY <2>1, <2>2 DEF ServerStep, FanOut
<1>3. RolloutTypes'
  BY <1>1 DEF RolloutTypes, operatorVars, agentVars
<1>4. ASSUME NEW s \in Requests PROVE Sound(s)'
  BY <1>1, <1>2, OthersSound DEF CliInv, StoreKept, operatorVars
<1>5. Frozen
  BY <1>1, <1>2 DEF Frozen, SameCommand, SameRelease, operatorVars
<1>6. DeviceInv'
  BY <1>1, <1>2, <1>5, DevicesKept DEF agentVars
<1> QED
  BY <1>3, <1>4, <1>6 DEF CliInv

-----------------------------------------------------------------------------
LEMMA RequestsAreNamed == \A r \in Requests : r # "none"
BY BoundsAssumption

\* What is left of a directory is a directory.
LEMMA LeftType ==
  ASSUME NEW directory \in [Places -> Hashes \cup {Torn}], NEW kept
  PROVE  Left(directory, kept) \in [Places -> Hashes \cup {Torn}]
BY SomeHashes DEF Left

\* A device at work on a message: the process that sent it is past its upload.
LEMMA Downloaded ==
  ASSUME RolloutTypes, ApiInv, CliInv, NEW q \in Queues, ~Idle(q), Downloading(q)
  PROVE  /\ work[q].request \in Requests /\ asked[work[q].request] # "none"
         /\ Message(q).kind = "deploy" /\ Message(q).id \in Seconds
         /\ Message(q).hashes \in [Places -> Hashes] /\ Message(q).files \in FileLists
<1>1. work[q].request \in inbox[q]
  BY DEF Downloading
<1>2. work[q].request \in Requests
  BY <1>1, TypesAndSlots DEF ApiInv, Types
<1>3. asked[work[q].request] # "none"
  BY <1>1, <1>2 DEF ApiInv, Addressed
<1>4. Sound(work[q].request) /\ cli[work[q].request] \in Processes
  BY <1>2 DEF CliInv, RolloutTypes
<1> QED
  BY <1>2, <1>3, <1>4 DEF Downloading, Message, Sound, Sends, Listed, Stored, Processes

\* A device that fetches is at one of the files of the message.
LEMMA FetchedIsListed ==
  ASSUME RolloutTypes, ApiInv, CliInv, NEW q \in Queues, Fetching(q), Downloading(q)
  PROVE  /\ Message(q).id \in Seconds /\ Fetched(q) \in Places /\ Object(q) \in Hashes
         /\ \A file \in Arriving(q) : WithFile(q, file) \in [Places -> Hashes \cup {Torn}]
<1>1. Message(q).id \in Seconds /\ Message(q).files \in FileLists
  BY Downloaded DEF Fetching
<1>2. work[q].next \in DOMAIN Message(q).files
  BY <1>1, ListsAreSequences DEF Fetching, RolloutTypes, Works, Positions
<1>3. Fetched(q) \in Places
  BY <1>1, <1>2, ListsAreSequences DEF Fetched
<1>4. Object(q) \in Hashes
  BY <1>1, <1>3 DEF Object, RolloutTypes
<1>5. cached[q][Message(q).id] \in [Places -> Hashes \cup {Torn}]
  BY <1>1 DEF RolloutTypes, Versions
<1>6. \A file \in Arriving(q) : file \in Hashes \cup {Torn}
  BY <1>3, <1>4, <1>5 DEF Arriving
<1> QED
  BY <1>1, <1>3, <1>4, <1>5, <1>6 DEF WithFile

\* One version directory of one device changes.
LEMMA OneVersion ==
  ASSUME cached \in [Queues -> Versions], NEW q \in Queues, NEW id \in Seconds,
         NEW directory \in [Places -> Hashes \cup {Torn}],
         cached' = [cached EXCEPT ![q][id] = directory]
  PROVE  /\ cached' \in [Queues -> Versions]
         /\ \A p \in Queues : p # q => cached'[p] = cached[p]
         /\ cached'[q][id] = directory
BY DEF Versions

\* A step of the device q.
LEMMA OneDevice ==
  ASSUME DeviceInv, NEW q \in Queues, UNCHANGED <<operatorVars, fanoutVars>>,
         \A p \in Queues : p # q =>
           work'[p] = work[p] /\ cached'[p] = cached[p] /\ inbox'[p] = inbox[p],
         Downloading(q)'
  PROVE  DeviceInv'
<1>1. cli' = cli
  BY DEF operatorVars
<1>2. ASSUME NEW p \in Queues, p # q PROVE Downloading(p)'
  <2>1. /\ Message(p)' = Message(p) /\ work'[p] = work[p]
        /\ cached'[p] = cached[p] /\ inbox'[p] = inbox[p]
    BY <1>1, <1>2 DEF Message
  <2> QED
    BY <2>1 DEF DeviceInv, Downloading, Idle
<1> QED
  BY <1>2 DEF DeviceInv

LEMMA Handled ==
  ASSUME ApiInv, NEW q \in Queues, NEW r \in Requests, DeviceHandles(q, r)
  PROVE  /\ UNCHANGED fanoutVars
         /\ \A p \in Queues : p # q => inbox'[p] = inbox[p]
BY TypesAndSlots DEF ApiInv, Types, DeviceHandles

\* A command that does not download.
LEMMA IdlePreserves ==
  ASSUME RolloutTypes, ApiInv, DeviceInv, NEW q \in Queues, NEW r \in Requests,
         \/ Rejects(q, r) \/ UpdatesFile(q, r)
         \/ CleansVersions(q, r) \/ DiesCleaning(q, r)
  PROVE  DeviceInv' /\ cached' \in [Queues -> Versions] /\ work' = work
<1>1. Idle(q) /\ UNCHANGED <<operatorVars, work>>
  BY DEF Rejects, UpdatesFile, CleansVersions, DiesCleaning, agentVars
<1>2. UNCHANGED fanoutVars /\ \A p \in Queues : p # q => inbox'[p] = inbox[p]
  BY Handled DEF Rejects, UpdatesFile, CleansVersions, DiesCleaning, apiVars, deviceVars
<1>3. Downloading(q)'
  BY <1>1 DEF DeviceInv, Downloading, Idle
<1>4. \A left \in PartlyCleaned(cached[q]) : left \in Versions
  <2> TAKE left \in PartlyCleaned(cached[q])
  <2>0. PICK gone, stuck, kept :
          left = [id \in Seconds |-> IF id \in gone THEN Empty
                    ELSE IF id = stuck THEN Left(cached[q][id], kept) ELSE cached[q][id]]
    BY DEF PartlyCleaned
  <2> SUFFICES ASSUME NEW id \in Seconds
               PROVE  left[id] \in [Places -> Hashes \cup {Torn}]
    BY <2>0 DEF Versions
  <2>1. cached[q][id] \in [Places -> Hashes \cup {Torn}]
    BY DEF RolloutTypes, Versions
  <2>2. Empty \in [Places -> Hashes \cup {Torn}]
    BY SomeHashes
  <2> QED
    BY <2>0, <2>1, <2>2, LeftType
<1>5. [id \in Seconds |-> Empty] \in Versions
  BY SomeHashes DEF Versions
<1>6. cached' = cached \/ \E left \in Versions : cached' = [cached EXCEPT ![q] = left]
  BY <1>4, <1>5 DEF Rejects, UpdatesFile, CleansVersions, DiesCleaning, agentVars
<1>7. cached' \in [Queues -> Versions] /\ \A p \in Queues : p # q => cached'[p] = cached[p]
  BY <1>6 DEF RolloutTypes
<1> QED
  BY <1>1, <1>2, <1>3, <1>7, OneDevice

LEMMA DownloadBeginsPreserves ==
  ASSUME RolloutTypes, ApiInv, CliInv, DeviceInv, NEW q \in Queues, NEW r \in Requests,
         DownloadBegins(q, r)
  PROVE  work' \in [Queues -> Works] /\ DeviceInv'
<1>1. /\ Idle(q) /\ work[q].next = 1 /\ r \in inbox[q] /\ cli[r].kind = "deploy"
      /\ UNCHANGED <<apiVars, operatorVars, cached>>
  BY DEF DownloadBegins, DeviceInv, Downloading
<1>2. /\ work'[q].request = r /\ work'[q].next = 1
      /\ \A p \in Queues : p # q => work'[p] = work[p]
      /\ work' \in [Queues -> Works]
  BY <1>1 DEF DownloadBegins, RolloutTypes, Works
<1>3. cli[r].files \in FileLists
  BY <1>1 DEF CliInv, Sound, Listed
<1>4. /\ \A n \in DOMAIN cli[r].files : ~(n < 1)
      /\ 1 <= Len(cli[r].files) + 1
  BY <1>3, ListsAreSequences DEF Positions
<1>5. Message(q)' = cli[r] /\ inbox' = inbox
  BY <1>1, <1>2, ApiKept DEF Message, operatorVars
<1>6. Downloading(q)'
  BY <1>1, <1>2, <1>4, <1>5, RequestsAreNamed DEF Downloading, Idle
<1> QED
  BY <1>1, <1>2, <1>5, <1>6, OneDevice DEF apiVars

\* A file fetched is the one the message says, in the directory at work.
LEMMA FetchFilePreserves ==
  ASSUME RolloutTypes, ApiInv, CliInv, DeviceInv, NEW q \in Queues, FetchFile(q)
  PROVE  /\ work' \in [Queues -> Works] /\ DeviceInv' /\ cached' \in [Queues -> Versions]
<1> DEFINE n == work[q].next
           id == Message(q).id
           files == Message(q).files
           hashes == Message(q).hashes
           directory == WithFile(q, Object(q))
<1>1. /\ Fetching(q) /\ Object(q) = hashes[files[n]]
      /\ cached' = [cached EXCEPT ![q][id] = directory]
      /\ work' = [work EXCEPT ![q].next = n + 1]
      /\ UNCHANGED <<apiVars, operatorVars>>
  BY DEF FetchFile, Matches, Fetched, RolloutTypes
<1>2. Downloading(q) /\ work[q] \in Works /\ ~Idle(q)
  BY <1>1 DEF DeviceInv, RolloutTypes, Fetching
<1>3. /\ id \in Seconds /\ files[n] \in Places /\ Object(q) \in Hashes
      /\ directory \in [Places -> Hashes \cup {Torn}]
  BY <1>1, <1>2, FetchedIsListed DEF Arriving, Fetched
<1>4. /\ files \in FileLists /\ hashes \in [Places -> Hashes]
      /\ \A m \in DOMAIN files : files[m] \in Places
      /\ DOMAIN files = 1..Len(files) /\ Len(files) \in Positions
  BY <1>2, Downloaded, ListsAreSequences
<1>5. n \in Positions /\ n <= Len(files)
  BY <1>1, <1>2 DEF Fetching, Works
<1>6. /\ work'[q].request = work[q].request /\ work'[q].next = n + 1
      /\ \A p \in Queues : p # q => work'[p] = work[p]
      /\ work' \in [Queues -> Works]
  BY <1>1, <1>2, <1>5, FirstPosition DEF RolloutTypes, Works
<1>7. cached[q][id] \in [Places -> Hashes \cup {Torn}]
  BY <1>3 DEF RolloutTypes, Versions
<1>8. \A place \in Places :
        directory[place] = IF place = files[n] THEN hashes[place] ELSE cached[q][id][place]
  BY <1>1, <1>3, <1>7 DEF WithFile, Fetched
<1>9. Message(q)' = Message(q) /\ ~Idle(q)' /\ inbox' = inbox
  BY <1>1, <1>2, <1>6, ApiKept DEF Message, Idle, operatorVars
<1>10. \A m \in DOMAIN files : m < n => cached[q][id][files[m]] = hashes[files[m]]
  BY <1>2 DEF Downloading
<1>11. Message(q).kind = "deploy" /\ work[q].request \in inbox[q]
  BY <1>2 DEF Downloading
<1> HIDE DEF directory, id
<1>12. /\ cached' \in [Queues -> Versions] /\ cached'[q][id] = directory
       /\ \A p \in Queues : p # q => cached'[p] = cached[p]
  BY <1>1, <1>3, OneVersion DEF RolloutTypes
<1> HIDE DEF n, files, hashes
<1>13. \A m \in DOMAIN files : m < n + 1 => m = n \/ m < n
  BY <1>4, <1>5 DEF Positions
<1>14. \A m \in DOMAIN files : m < n + 1 => directory[files[m]] = hashes[files[m]]
  BY <1>4, <1>8, <1>10, <1>13
<1>15. n + 1 <= Len(files) + 1
  BY <1>4, <1>5 DEF Positions
<1>16. Downloading(q)'
  BY <1>6, <1>9, <1>11, <1>12, <1>14, <1>15 DEF Downloading, id, files, hashes
<1> QED
  BY <1>1, <1>6, <1>9, <1>12, <1>16, OneDevice DEF apiVars

\* A download that ends, fails or dies leaves the device with nothing to do.
LEMMA StopsPreserve ==
  ASSUME RolloutTypes, ApiInv, CliInv, DeviceInv, NEW q \in Queues,
         DownloadFails(q) \/ DownloadEnds(q) \/ DiesDownloading(q)
  PROVE  /\ work' \in [Queues -> Works] /\ DeviceInv' /\ cached' \in [Queues -> Versions]
<1>1. ~Idle(q) /\ UNCHANGED operatorVars /\ work' = [work EXCEPT ![q] = NoWork]
  BY DEF DownloadFails, DownloadEnds, DiesDownloading, Fetching, Returns
<1>2. Downloading(q) /\ work[q] \in Works
  BY DEF DeviceInv, RolloutTypes
<1>3. work[q].request \in Requests
  BY <1>1, <1>2, Downloaded
<1>4. UNCHANGED fanoutVars /\ \A p \in Queues : p # q => inbox'[p] = inbox[p]
  BY <1>3, Handled
  DEF DownloadFails, DownloadEnds, DiesDownloading, Returns, apiVars, deviceVars
<1>5. /\ work'[q].request = "none" /\ work'[q].next = 1
      /\ \A p \in Queues : p # q => work'[p] = work[p]
      /\ work' \in [Queues -> Works]
  BY <1>1, FirstPosition DEF NoWork, RolloutTypes, Works
<1>6. Downloading(q)'
  BY <1>5 DEF Downloading, Idle
<1>7. cached' \in [Queues -> Versions] /\ \A p \in Queues : p # q => cached'[p] = cached[p]
  <2>1. CASE cached' = cached
    BY <2>1 DEF RolloutTypes
  <2>2. CASE Fetching(q) /\ \E file \in Arriving(q), kept \in SUBSET Places :
               cached' = [cached EXCEPT ![q][Message(q).id] = Left(WithFile(q, file), kept)]
    <3>1. PICK file \in Arriving(q), kept \in SUBSET Places :
            cached' = [cached EXCEPT ![q][Message(q).id] = Left(WithFile(q, file), kept)]
      BY <2>2
    <3>2. Message(q).id \in Seconds /\ WithFile(q, file) \in [Places -> Hashes \cup {Torn}]
      BY <1>2, <2>2, FetchedIsListed
    <3>3. Left(WithFile(q, file), kept) \in [Places -> Hashes \cup {Torn}]
      BY <3>2, LeftType
    <3> QED
      BY <3>1, <3>2, <3>3, OneVersion DEF RolloutTypes
  <2>3. \A kept : kept \in {{}} \/ kept \in {Places} => kept \in SUBSET Places
    OBVIOUS
  <2>4. CASE DownloadFails(q)
    BY <2>2, <2>3, <2>4 DEF DownloadFails
  <2>5. CASE DiesDownloading(q)
    BY <2>1, <2>2, <2>3, <2>5 DEF DiesDownloading
  <2> QED
    BY <2>1, <2>4, <2>5 DEF DownloadEnds
<1> QED
  BY <1>1, <1>4, <1>5, <1>6, <1>7, OneDevice

LEMMA DeviceStepPreserves ==
  ASSUME RolloutTypes, ApiInv, CliInv, DeviceInv, NEW q \in Queues, DeviceStep(q)
  PROVE  RolloutTypes' /\ CliInv' /\ DeviceInv'
<1>1. UNCHANGED operatorVars
  BY DEF DeviceStep, Rejects, DownloadBegins, UpdatesFile, CleansVersions, DiesCleaning,
         FetchFile, DownloadFails, DownloadEnds, DiesDownloading
<1>2. UNCHANGED fanoutVars
  <2>1. ASSUME ~Idle(q) PROVE work[q].request \in Requests
    BY <2>1, Downloaded DEF DeviceInv
  <2> QED
    BY <2>1, Handled
    DEF DeviceStep, Rejects, DownloadBegins, UpdatesFile, CleansVersions, DiesCleaning,
        FetchFile, DownloadFails, DownloadEnds, DiesDownloading, Fetching, Returns, apiVars
<1>3. CliInv'
  BY <1>1, <1>2, CliKept
<1> DEFINE Done == /\ work' \in [Queues -> Works] /\ DeviceInv'
                   /\ cached' \in [Queues -> Versions]
                   /\ document' \in [Queues -> JsonObjects]
<1>4. ASSUME NEW r \in Requests, Rejects(q, r) \/ CleansVersions(q, r) \/ DiesCleaning(q, r)
      PROVE  Done
  BY <1>4, IdlePreserves DEF Rejects, CleansVersions, DiesCleaning, agentVars, RolloutTypes
<1>5. ASSUME NEW r \in Requests, UpdatesFile(q, r) PROVE Done
  <2>1. r \in inbox[q] /\ cli[r].kind = "update_configuration"
    BY <1>5 DEF UpdatesFile, DeviceHandles
  <2>2. cli[r].update \in Updates
    BY <2>1 DEF CliInv, Sound, Sends
  <2>3. MergeObject(document[q], cli[r].update.values) \in JsonObjects
    BY <2>2, UpdatesAssumption DEF RolloutTypes
  <2>4. document' \in [Queues -> JsonObjects]
    BY <1>5, <2>3 DEF UpdatesFile, RolloutTypes
  <2> QED
    BY <1>5, <2>4, IdlePreserves DEF UpdatesFile, RolloutTypes
<1>6. ASSUME NEW r \in Requests, DownloadBegins(q, r) PROVE Done
  BY <1>6, DownloadBeginsPreserves DEF DownloadBegins, RolloutTypes
<1>7. ASSUME FetchFile(q) \/ DownloadFails(q) \/ DownloadEnds(q) \/ DiesDownloading(q)
      PROVE  Done
  BY <1>7, FetchFilePreserves, StopsPreserve
  DEF FetchFile, DownloadFails, DownloadEnds, DiesDownloading, RolloutTypes
<1>8. Done
  BY <1>4, <1>5, <1>6, <1>7 DEF DeviceStep
<1> QED
  BY <1>1, <1>3, <1>8 DEF RolloutTypes, operatorVars

-----------------------------------------------------------------------------
LEMMA RebuildPreserves ==
  ASSUME RolloutTypes, ApiInv, CliInv, DeviceInv, NEW place \in Places, Rebuilds(place)
  PROVE  RolloutTypes' /\ CliInv' /\ DeviceInv'
<1>1. UNCHANGED <<apiVars, objects, cli, agentVars>>
  BY DEF Rebuilds
<1>2. source' \in [Places -> Contents]
  <2>1. source[place] + 1 \in Contents
    BY BoundsAssumption DEF Rebuilds, RolloutTypes, Contents
  <2> QED
    BY <2>1 DEF Rebuilds, RolloutTypes
<1>3. RolloutTypes'
  BY <1>1, <1>2 DEF RolloutTypes, agentVars
<1>4. ASSUME NEW s \in Requests PROVE Sound(s)'
  BY <1>1, <1>4, ApiKept, OthersSound DEF CliInv, StoreKept
<1>5. DeviceInv'
  BY <1>1, ApiKept, DevicesKept DEF agentVars, Frozen, SameCommand, SameRelease
<1> QED
  BY <1>3, <1>4, <1>5 DEF CliInv

LEMMA RolloutInitially == RolloutInit => RolloutInv /\ Answers
<1> SUFFICES ASSUME RolloutInit PROVE RolloutInv /\ Answers
  OBVIOUS
<1> USE DEF RolloutInit
<1>1. RolloutTypes
  <2>1. 0 \in Contents /\ NoWork \in Works
    BY FirstPosition, BoundsAssumption DEF Contents, NoWork, Works
  <2> QED
    BY <2>1, SomeHashes, NewProcessType, UpdatesAssumption DEF RolloutTypes, Versions
<1>2. CliInv
  BY DEF CliInv, Sound, Sends, Listed, Stored, Scoped, Told, Destructive, NewProcess, ApiInit
<1>3. DeviceInv
  BY DEF DeviceInv, Downloading, Idle, NoWork
<1>4. Answers
  BY DEF Answers, ApiInit
<1> QED
  BY <1>1, <1>2, <1>3, <1>4 DEF RolloutInv

LEMMA RolloutInvStep ==
  RolloutInv /\ ApiInv /\ Answers /\ [RolloutNext]_rolloutVars => RolloutInv'
<1> SUFFICES ASSUME RolloutInv, ApiInv, Answers, [RolloutNext]_rolloutVars PROVE RolloutInv'
  OBVIOUS
<1> USE DEF RolloutInv
<1>1. ASSUME NEW r \in Requests, Invoke(r) \/ CliStep(r) \/ Killed(r) PROVE RolloutInv'
  <2>1. RolloutTypes' /\ CliInv' /\ Frozen /\ inbox' = inbox /\ UNCHANGED agentVars
    BY <1>1, CliPreserves
  <2>2. DeviceInv'
    BY <2>1, DevicesKept DEF agentVars
  <2> QED
    BY <2>1, <2>2
<1>2. ASSUME UNCHANGED rolloutVars PROVE RolloutInv'
  <2>1. UNCHANGED <<apiVars, operatorVars, agentVars>>
    BY <1>2 DEF rolloutVars
  <2>2. UNCHANGED fanoutVars /\ inbox' = inbox
    BY <2>1 DEF apiVars, deviceVars
  <2>3. CliInv'
    BY <2>1, <2>2, CliKept
  <2>4. DeviceInv'
    BY <2>1, <2>2, DevicesKept DEF operatorVars, agentVars, fanoutVars, Frozen, SameCommand,
                                         SameRelease
  <2> QED
    BY <2>1, <2>3, <2>4 DEF RolloutTypes, operatorVars, agentVars
<1> QED
  BY <1>1, <1>2, ServerPreserves, DeviceStepPreserves, RebuildPreserves DEF RolloutNext

-----------------------------------------------------------------------------
\* What the operators and the devices do is, to the server, one of the steps
\* RestApi allows.
LEMMA StepUsesApi ==
  RolloutTypes /\ ApiInv /\ [RolloutNext]_rolloutVars => [ApiNext]_apiVars
<1> SUFFICES ASSUME RolloutTypes, ApiInv, [RolloutNext]_rolloutVars PROVE [ApiNext]_apiVars
  OBVIOUS
<1>1. ASSUME NEW r \in Requests, Posts(r) PROVE ApiNext
  <2>1. cli[r].group \in Groups \cup {AnyGroup} /\ Publish(r, cli[r].group)
    BY <1>1 DEF Posts, RolloutTypes, Processes
  <2> QED
    BY <2>1 DEF ApiNext
<1>2. ASSUME NEW r \in Requests, Invoke(r) \/ CliStep(r) \/ Killed(r), ~Posts(r)
      PROVE  UNCHANGED apiVars
  BY <1>2 DEF Invoke, CliStep, Killed, GivesUp, CommandBegins, Confirmed, DeployBegins,
              HashFile, UploadFile, UploadFails, PostFails, Answered, TimesOut, CliOnly
<1>3. ASSUME NEW r \in Requests, ServerStep(r) PROVE ApiNext
  BY <1>3 DEF ServerStep, ApiNext
<1>4. ASSUME NEW q \in Queues, NEW r \in Requests,
             \/ Rejects(q, r) \/ DownloadBegins(q, r) \/ UpdatesFile(q, r)
             \/ CleansVersions(q, r) \/ DiesCleaning(q, r)
      PROVE  ApiNext \/ UNCHANGED apiVars
  BY <1>4 DEF Rejects, DownloadBegins, UpdatesFile, CleansVersions, DiesCleaning, ApiNext
<1>5. ASSUME NEW q \in Queues, FetchFile(q) \/ DiesDownloading(q) PROVE UNCHANGED apiVars
  BY <1>5 DEF FetchFile, DiesDownloading
<1>6. ASSUME NEW q \in Queues, DownloadFails(q) \/ DownloadEnds(q) PROVE ApiNext
  <2>1. DeviceHandles(q, work[q].request)
    BY <1>6 DEF DownloadFails, DownloadEnds, Returns
  <2>2. work[q].request \in Requests
    BY <2>1, TypesAndSlots DEF ApiInv, Types, DeviceHandles
  <2> QED
    BY <2>1, <2>2 DEF ApiNext
<1>7. ASSUME NEW place \in Places, Rebuilds(place) PROVE UNCHANGED apiVars
  BY <1>7 DEF Rebuilds
<1>8. ASSUME UNCHANGED rolloutVars PROVE UNCHANGED apiVars
  BY <1>8 DEF rolloutVars
<1> QED
  BY <1>1, <1>2, <1>3, <1>4, <1>5, <1>6, <1>7, <1>8 DEF RolloutNext, DeviceStep

\* The invariants, together with those of the server.
RolloutSteps == RolloutInv /\ ApiInv /\ Answers

LEMMA RolloutInvariant ==
  RolloutSpec => ApiSpec /\ []RolloutSteps
<1>1. RolloutInit => ApiInit /\ RolloutSteps
  BY RolloutInitially, ApiInitially DEF RolloutInit, RolloutSteps
<1>2. RolloutSteps /\ [RolloutNext]_rolloutVars => RolloutSteps' /\ [ApiNext]_apiVars
  BY RolloutInvStep, StepUsesApi, ApiInvStep, AnswersStep DEF RolloutSteps, RolloutInv
<1> QED
  BY <1>1, <1>2, PTL DEF RolloutSpec, ApiSpec

\* A fleet on which CLI invocations deploy, clean and update, and devices
\* download over several steps, is one to the REST API as RestApi.tla has it:
\* every theorem about ApiSpec holds for it.
THEOREM RolloutUsesApi == RolloutSpec => ApiSpec
BY RolloutInvariant, PTL

\* Types, and more: a process of the CLI sends its request once, is told its
\* outcome when it ends, and a device downloads what is in its queue.
THEOREM RolloutTypesHold == RolloutSpec => []RolloutTypeOK
<1>1. RolloutSteps => RolloutTypeOK
  <2> SUFFICES ASSUME RolloutSteps PROVE RolloutTypeOK
    OBVIOUS
  <2> USE DEF RolloutSteps, RolloutInv
  <2>1. ApiTypeOK
    BY DEF ApiInv
  <2>2. \A r \in Requests :
          /\ cli[r].phase \in Phases
          /\ cli[r].group \in Groups \cup {AnyGroup}
          /\ cli[r].hashes \in [Places -> Contents \cup {Nothing}]
          /\ cli[r].next = 1 \/ cli[r].next \in DOMAIN cli[r].files
    BY DEF RolloutTypes, Processes, Hashes, CliInv, Sound, Listed
  <2>3. \A r \in Requests :
          /\ cli[r].outcome # "none" => cli[r].phase = "done"
          /\ cli[r].phase \in {"start", "confirm", "hash", "upload", "post"} => asked[r] = "none"
    BY DEF CliInv, Sound, Told, Sends
  <2>4. \A q \in Queues :
          /\ cached[q] \in [Seconds -> [Places -> Contents \cup {Nothing, Torn}]]
          /\ document[q] \in JsonObjects
    <3>1. Hashes \cup {Torn} = Contents \cup {Nothing, Torn}
      BY DEF Hashes
    <3> QED
      BY <3>1 DEF RolloutTypes, Versions
  <2>5. ASSUME NEW q \in Queues, work[q].request # "none"
        PROVE  /\ work[q].request \in inbox[q]
               /\ work[q].next \in 1..Len(cli[work[q].request].files) + 1
    <3>1. ~Idle(q) /\ Downloading(q)
      BY <2>5 DEF DeviceInv, Idle
    <3>2. Len(Message(q).files) \in Positions
      BY <3>1, Downloaded, ListsAreSequences
    <3>3. work[q].next \in Positions
      BY DEF RolloutTypes, Works
    <3> QED
      BY <3>1, <3>2, <3>3 DEF Downloading, Message, Positions
  <2> QED
    BY <2>1, <2>2, <2>3, <2>4, <2>5 DEF RolloutTypeOK, RolloutTypes, Hashes
<1> QED
  BY <1>1, RolloutInvariant, PTL

\* A message in a queue is of a request a process of the CLI has sent.
LEMMA InboxIsSent ==
  ASSUME RolloutSteps, NEW r \in Requests, NEW q \in Queues, r \in inbox[q]
  PROVE  Sound(r) /\ asked[r] # "none" /\ sends[r][q] # "none"
BY DEF RolloutSteps, RolloutInv, CliInv, ApiInv, Addressed

\* Every file of a version that some device is told of is in the store, however
\* uploads fail, the CLI is interrupted, or deployments share a second: the
\* CLI sends its request after the last upload, and nothing deletes an object.
THEOREM DeployedIsStored == RolloutSpec => []PublishedIsStored
<1>1. RolloutSteps => PublishedIsStored
  <2> SUFFICES ASSUME RolloutSteps, NEW r \in Published,
                      NEW n \in DOMAIN cli[r].files
               PROVE  objects[cli[r].id][cli[r].files[n]] # Nothing
    BY DEF PublishedIsStored
  <2>1. PICK q \in Queues : r \in inbox[q]
    BY DEF Published
  <2>2. r \in Requests /\ cli[r].kind = "deploy"
    BY DEF Published
  <2> QED
    BY <2>1, <2>2, InboxIsSent DEF Sound, Sends, Stored
<1> QED
  BY <1>1, RolloutInvariant, PTL

\* A download that succeeds has put every file its message lists where it
\* belongs, with the published hash, whatever the directory held before: files
\* of another deployment of that second, of another list, or left by a download
\* or a cleaning that died or could not remove them.  The message cannot change
\* once it is sent, and each file is compared after it is there.
THEOREM DownloadsAreAsPublished == RolloutSpec => []DownloadedAsPublished
<1>1. RolloutSteps => DownloadedAsPublished
  <2> SUFFICES ASSUME RolloutSteps, NEW q \in Queues, ~Idle(q), ~Fetching(q),
                      NEW n \in DOMAIN Message(q).files
               PROVE  LET place == Message(q).files[n]
                      IN cached[q][Message(q).id][place] = Message(q).hashes[place]
    BY DEF DownloadedAsPublished
  <2> USE DEF RolloutSteps, RolloutInv
  <2>1. Downloading(q) /\ work[q].next \in Positions
    BY DEF DeviceInv, RolloutTypes, Works
  <2>2. Message(q).files \in FileLists
    BY <2>1, Downloaded
  <2>3. n < work[q].next
    BY <2>1, <2>2, ListsAreSequences DEF Fetching, Positions
  <2> QED
    BY <2>1, <2>3 DEF Downloading
<1> QED
  BY <1>1, RolloutInvariant, PTL

\* A device runs clean_old_version only if the operator's configuration was
\* loaded or names the device's own group.
THEOREM CleansOnlyAsMeant == RolloutSpec => []CleansAsMeant
<1>1. RolloutSteps /\ ExecutesOwnGroup => CleansAsMeant
  <2> SUFFICES ASSUME RolloutSteps, ExecutesOwnGroup, NEW r \in Requests, NEW q \in Queues,
                      <<r, q>> \in executed, Destructive(r), ~cli[r].loaded
               PROVE  cli[r].group = DeviceGroup[q]
    BY DEF CleansAsMeant
  <2>1. asked[r] \in {AnyGroup, DeviceGroup[q]}
    BY DEF ExecutesOwnGroup
  <2>2. asked[r] # "none"
    BY <2>1, GroupsAssumption
  <2>3. asked[r] = cli[r].group /\ cli[r].group # AnyGroup
    BY <2>2 DEF RolloutSteps, RolloutInv, CliInv, Sound, Sends, Scoped, ScopeKnown
  <2> QED
    BY <2>1, <2>3
<1> QED
  BY <1>1, RolloutInvariant, RolloutUsesApi, OnlyOwnGroup, PTL

\* The CLI exits with success only when a device has the command in its queue
\* or has reported on it, whatever sends, answers or processes failed.
THEOREM SuccessIsPublished == ASSUME ReportsArrive PROVE RolloutSpec => []OkIsPublished
<1>1. RolloutSteps /\ AcceptedIsDelivered => OkIsPublished
  BY DEF RolloutSteps, RolloutInv, CliInv, Sound, Told, AcceptedIsDelivered, OkIsPublished
<1>2. ApiSpec => []AcceptedIsDelivered
  BY SuccessIsDelivered
<1> QED
  BY <1>1, <1>2, RolloutInvariant, RolloutUsesApi, PTL

\* The validation of the server and that of the device are one: no update a
\* device is sent leaves the release directory, and none is refused there
\* because of its path.
THEOREM UpdatesStayInside == RolloutSpec => []PathsAgree
<1>1. RolloutSteps => PathsAgree
  <2> SUFFICES ASSUME RolloutSteps, NEW r \in Requests, NEW q \in Queues,
                      r \in inbox[q], cli[r].kind = "update_configuration"
               PROVE  DeviceAccepts(cli[r].update.path) /\ StaysInside(cli[r].update.path)
    BY DEF PathsAgree
  <2>1. cli[r].update \in Updates /\ ServerAccepts(cli[r].update.path)
    BY InboxIsSent DEF Sound, Sends, Valid
  <2>2. cli[r].update.path \in Seq(STRING) /\ cli[r].update.path # <<>>
    BY <2>1, UpdatesAssumption
  <2> QED
    BY <2>1, <2>2, AcceptedStaysInside
<1> QED
  BY <1>1, RolloutInvariant, PTL
=============================================================================
