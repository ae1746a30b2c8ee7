-------------------------------- MODULE Paths --------------------------------
(***************************************************************************)
(* The paths inside a release that an update_configuration command names:  *)
(* which of them the server and which the device accept, and where they    *)
(* lead.                                                                   *)
(*                                                                         *)
(* A path is the sequence of what its '/' separate: <<"", "a">> is /a.  The *)
(* segment "b\\c" has a backslash in it and "c:" is a drive.                *)
(***************************************************************************)
EXTENDS Integers, Sequences, SequencesExt

\* Faulty variant: only a path that begins with ".." is refused.
ServerAcceptsInner(path) ==
  /\ path # <<"">>
  /\ ~Contains(path, "b\\c")
  /\ Head(path) \notin {"", "c:", ".."}

\* validateConfigurationPath(), and what validateObjectKey() and
\* make_object_key() ask of an install path.
ServerAccepts(path) ==
  /\ path # <<"">>
  /\ ~Contains(path, "b\\c")
  /\ Head(path) \notin {"", "c:"}
  /\ ~Contains(path, "..")

\* A ".." cancels the name before it.
Follow(sofar, segment) ==
  IF segment \in {"", "."} THEN sofar
  ELSE IF segment = ".." /\ sofar # <<>> /\ Last(sofar) # ".." THEN Front(sofar)
  ELSE Append(sofar, segment)

\* What the first n segments of a relative path normalize to.
Normals(path) ==
  LET sofar[n \in 0..Len(path)] ==
        IF n = 0 THEN <<>> ELSE Follow(sofar[n - 1], path[n])
  IN sofar

\* lexically_normal() of a relative path.
Normalize(path) == Normals(path)[Len(path)]

\* validate_release_relative_path(), on a POSIX device.  A path that is
\* nothing but "." normalizes to ".", written <<>> here.
DeviceAccepts(path) ==
  /\ path # <<"">>
  /\ Head(path) # ""
  /\ Normalize(path) = <<>> \/ Head(Normalize(path)) # ".."

Descent(segment) ==
  CASE segment \in {"", "."} -> 0 [] segment = ".." -> -1 [] OTHER -> 1

\* Reference: how deep below the release directory the first n segments lead.
Depths(path) ==
  LET depth[n \in 0..Len(path)] ==
        IF n = 0 THEN 0 ELSE depth[n - 1] + Descent(path[n])
  IN depth

\* The path never leads out of the release directory, at none of its segments.
StaysInside(path) ==
  /\ Head(path) # "" \/ Len(path) = 1
  /\ \A n \in DOMAIN path : Depths(path)[n] >= 0
=============================================================================
