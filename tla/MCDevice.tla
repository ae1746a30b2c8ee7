------------------------------ MODULE MCDevice ------------------------------
(* The constants with which TLC checks Device.                             *)
EXTENDS Device, TLC

Msg(command, r) == [command |-> command, release |-> r]

\* Every command the engine or its releases have to do with, for each release.
DeviceMessages ==
  {Msg(c, r) : c \in {"download_version", "apply_version", "rollback_version", "restart_service",
                      "clean_old_version", "update_configuration", "reboot_device"}, r \in Releases}

DeviceSymmetry == Permutations(Procs) \cup Permutations(Releases) \cup Permutations(Files)

\* Faults and crash points that TrackingIsSafe, SwapIsSafe, RemovalIsSafe and
\* the handler's CacheIsSafe allow.  The agent dies at every other step of the
\* engine and of the handler; what a death inside an operation of the installer
\* leaves behind has its own runs.
EngineFaults == {"start", "write_state"}
EngineCrashSteps == EngineSteps \ {"record"}

SomeAgentFaults == {"corrupt", "delete"}
SomeHandlerCrashSteps == {"idle", "dispatch", "clean", "engine"}
=============================================================================
