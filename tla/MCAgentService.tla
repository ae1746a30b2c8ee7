--------------------------- MODULE MCAgentService ---------------------------
(* The constants with which TLC checks AgentService.                       *)
EXTENDS AgentService

CONSTANT r1

Msg(command, r) == [command |-> command, release |-> r]

\* One release, each command once.
OneOfEach == {Msg(c, r1) : c \in Commands}

DownloadAndApply == {Msg(c, r1) : c \in {"download_version", "apply_version"}}

\* The store, the network and the disk may fail, and so may removals.
AnsweredFaults == {"create", "download", "corrupt", "hash", "list", "disk", "remove"}
NoFaults == {}
CrashInDownload == {"fetch", "verify"}
=============================================================================
