\* A 4.8 or later kernel with the seccomp filter: forks, threads, execve from
\* any thread.
SPECIFICATION Spec
CONSTANTS
  Pid = {1, 2, 3}
  TaskPid = {1, 2, 3}
  None = None
  ProcState = {101, 102, 103, 104}
  Fd <- NoFile
  Name <- NoFile
  SizeModulus = 16
  IntModulus = 8
  Codes = {"ok"}
  StatusPid <- LastPid
  UseSecComp = TRUE
  SecCompV1 = FALSE
  FollowForks = TRUE
  Creates = {"fork", "thread"}
  ThreadExec = TRUE
  SuddenDeath = FALSE
  PidReuse = FALSE
  TraceePid = 1
  WaitDaemons = FALSE
  Registers <- FailedWrite
  CoreSizes = {0}
  DumpCodes = {}
  Clone3 = FALSE
INVARIANTS
  TypeOK
  KnownProcesses
  TablesFollowGroups
  OneLeaderPerTable
  LoopInv
  SuspendedAwaitCreator
  NoAssertFails
