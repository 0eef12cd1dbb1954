\* A kernel before 4.8 with the seccomp filter; liveness.
SPECIFICATION FairSpec
CONSTANTS
  Pid = {1, 2}
  TaskPid = {1, 2}
  None = None
  ProcState = {101, 102, 103, 104}
  Fd <- NoFile
  Name <- NoFile
  SizeModulus = 16
  IntModulus = 8
  Codes = {"ok", "fault"}
  StatusPid <- LastPid
  UseSecComp = TRUE
  SecCompV1 = TRUE
  FollowForks = TRUE
  Creates = {"fork", "thread"}
  ThreadExec = FALSE
  SuddenDeath = FALSE
  PidReuse = TRUE
  TraceePid = 1
  WaitDaemons = TRUE
  Registers <- FailedWrite
  CoreSizes = {0}
  DumpCodes = {}
  Clone3 = FALSE
INVARIANTS
  PhaseAgrees
  ExitsLikeTracee
  EndsWhenDone
PROPERTIES
  Resumed
  Finishes
