\* A task may be killed while its fork is still to be read: is every stopped
\* task resumed?
SPECIFICATION FairSpec
CONSTANTS
  Pid = {1, 2, 9}
  TaskPid = {1, 2}
  None = None
  ProcState = {101, 102, 103, 104}
  Fd <- NoFile
  Name <- NoFile
  SizeModulus = 16
  IntModulus = 8
  Codes = {"ok"}
  StatusPid <- LastPid
  UseSecComp = TRUE
  SecCompV1 = FALSE
  FollowForks = TRUE
  Creates = {"fork", "thread"}
  ThreadExec = FALSE
  SuddenDeath = TRUE
  PidReuse = FALSE
  TraceePid = 1
  WaitDaemons = TRUE
  Registers <- FailedWrite
  CoreSizes = {0}
  DumpCodes = {}
  Clone3 = FALSE
PROPERTY Resumed
CHECK_DEADLOCK FALSE
