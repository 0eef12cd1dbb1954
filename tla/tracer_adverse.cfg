\* No seccomp filter; tasks killed at any moment, clone3, events lost, exit statuses
\* taken for pids.
SPECIFICATION Spec
CONSTANTS
  Pid = {1, 2, 3, 9}
  TaskPid = {1, 2, 3}
  None = None
  ProcState = {101, 102, 103, 104}
  Fd <- NoFile
  Name <- NoFile
  SizeModulus = 16
  IntModulus = 8
  Codes = {"ok"}
  StatusPid <- LastPid
  UseSecComp = FALSE
  SecCompV1 = FALSE
  FollowForks = TRUE
  Creates = {"fork", "thread"}
  ThreadExec = FALSE
  SuddenDeath = TRUE
  PidReuse = FALSE
  TraceePid = 1
  WaitDaemons = FALSE
  Registers <- FailedWrite
  CoreSizes = {0}
  DumpCodes = {}
  Clone3 = TRUE
INVARIANTS
  IInv
  PhaseAgrees
  NeverInsane
  LoopInv
CHECK_DEADLOCK FALSE
