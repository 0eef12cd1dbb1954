\* A file opened close-on-exec and duplicated for the program to come.
SPECIFICATION Spec
CONSTANTS
  Pid = {1, 2}
  None = None
  ProcState = {101, 102, 103}
  Fd = {0, 1}
  Name = {"out"}
  SizeModulus = 8
  IntModulus = 4
  TraceePid = 1
  Ofd = {11, 12}
  MaxLength = 2
  Uses <- RedirectUse
  MaxTotal = 2
CONSTRAINT Bounds
INVARIANT ExecKeepsOpen
