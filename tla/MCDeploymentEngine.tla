------------------------- MODULE MCDeploymentEngine -------------------------
(* The constants with which TLC checks DeploymentEngine.                   *)
EXTENDS DeploymentEngine, TLC

DeviceSymmetry == Permutations(Releases) \cup Permutations(Procs)

\* Faults and crash points that TrackingIsSafe allows.  Of the installer's own,
\* those that cost it a release: between the renames of a swap, inside a
\* removal; the others are left to its own runs.
TrackedFaults == {"stop", "clear_record", "start", "write_state", "is_directory", "tear"}
TrackedCrashSteps == (EngineSteps \ {"record"}) \cup {"publish", "link", "removing"}

\* The faults of the engine's own files and calls.
EngineFaults == {"stop", "clear_record", "start", "write_record", "boot_identity",
                 "read_record", "exists_record", "adopt", "tear", "read_state",
                 "exists_state", "write_state"}
=============================================================================
