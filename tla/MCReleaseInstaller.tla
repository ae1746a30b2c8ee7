------------------------- MODULE MCReleaseInstaller -------------------------
(* The constants with which TLC checks ReleaseInstaller.                   *)
EXTENDS ReleaseInstaller, TLC

ReleaseSymmetry == Permutations(Releases)

\* Every failure the code handles.
AllFaults == {"create", "clear", "sweep", "exists", "aside", "publish", "restore",
              "cleanup", "discard", "exists_state", "read_state", "write_state", "link",
              "list", "is_directory", "remove"}

\* The environment of SwapIsSafe, RemovalIsSafe, StateIsRead and ListIsRead.
\* Staging is always cleared: copies that keep earlier files multiply the
\* states of three releases beyond what a run can visit.
SafeFaults == AllFaults \ {"restore", "remove", "exists_state", "is_directory", "clear"}
SafeCrashSteps == Steps \ {"publish", "removing"}

AllCrashSteps == Steps
=============================================================================
