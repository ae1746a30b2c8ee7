---------------------------- MODULE Configuration ----------------------------
(***************************************************************************)
(* The settings of the agent (YirangAgent/Configurations.cpp) and of the   *)
(* CLI (DeployCLI/Configurations.cpp): each is a default, replaced by the  *)
(* value in the configuration file, replaced by the argument, brought into *)
(* its range.  Only the settings that other modules depend on are listed.  *)
(*                                                                         *)
(* A file has JSON values under the names of settings, unless it was not   *)
(* loaded: it could not be opened, read or parsed, or is no object.        *)
(***************************************************************************)
EXTENDS Integers

CONSTANT IntMax     \* the largest int, 2^31 - 1

ASSUME IntAssumption == IntMax \in Nat /\ IntMax >= 32767

IntMin == -IntMax - 1

\* (int) of an int64_t: the low bits.
ToInt(n) == ((n - IntMin) % (2 * IntMax + 2)) + IntMin

Unloaded == [loaded |-> FALSE, values |-> <<>>]

\* load(): a JSON value is [kind, value]; a number that is no int64 is of
\* another kind than "int".  read_string(), read_int(): a value of another kind
\* and a setting that is not in the file leave the default.
Read(file, key, kind, default) ==
  IF file.loaded /\ key \in DOMAIN file.values /\ file.values[key].kind = kind
    THEN IF kind = "int" THEN ToInt(file.values[key].value) ELSE file.values[key].value
    ELSE default

\* parse(): an argument that is given replaces what was read.
Override(arguments, key, value) ==
  IF key \in DOMAIN arguments THEN arguments[key] ELSE value

\* validate_configuration(): what is out of range becomes the default.
InRange(value, low, high, default) ==
  IF value < low \/ value > high THEN default ELSE value

-----------------------------------------------------------------------------
(* The agent.  Its counts and times cannot be given as arguments.          *)

\* [low, high, default] of each setting.
AgentRange ==
  [poll_wait_seconds |-> [low |-> 0, high |-> 20, default |-> 20],
   keep_previous_releases |-> [low |-> 0, high |-> IntMax, default |-> 2],
   stop_timeout_seconds |-> [low |-> 1, high |-> IntMax, default |-> 30],
   startup_timeout_seconds |-> [low |-> 1, high |-> IntMax, default |-> 60],
   timeout_ms |-> [low |-> 1, high |-> IntMax, default |-> 2000],
   interval_ms |-> [low |-> 1, high |-> IntMax, default |-> 1000],
   success_threshold |-> [low |-> 1, high |-> IntMax, default |-> 1],
   failure_threshold |-> [low |-> 1, high |-> IntMax, default |-> 3]]

AgentNumbers == DOMAIN AgentRange

AgentNumber(file, key) ==
  LET range == AgentRange[key]
  IN InRange(Read(file, key, "int", range.default), range.low, range.high, range.default)

-----------------------------------------------------------------------------
(* The CLI                                                                 *)

\* The group a command is sent to; the empty string is every device.
TargetGroup(file, arguments) ==
  Override(arguments, "target_group", Read(file, "target_group", "string", ""))

\* load_warning(): it tells only that the file as a whole was not loaded.
LoadWarning(file) == ~file.loaded

RequestTimeout(file, arguments) ==
  InRange(Override(arguments, "request_timeout_seconds",
                   Read(file, "request_timeout_seconds", "int", 30)), 1, IntMax, 30)
=============================================================================
