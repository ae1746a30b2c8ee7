SPECIFICATION FairAgentSpec
CONSTANTS
  r1 = r1
  Releases = {r1}
  Files = {f1}
  Messages <- OneOfEach
  None = None
  MaxAttempts = 5
  MaxQueued = 3
  Faults <- AnsweredFaults
  CrashSteps <- HandlerSteps
INVARIANTS
  AgentTypeOK
  CountsQueued
PROPERTIES
  LeavesAnswered
  MessagesLeave
