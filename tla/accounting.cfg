\* The uses: one process and every call; what is approximated; two processes that
\* share, and that move in what they share; two threads; names that go while calls
\* wait; threads that race; an inherited file; the interruption target.
SPECIFICATION Spec
CONSTANTS
  Pid = {1, 2}
  None = None
  ProcState = {a1, a2, a3}
  Fd = {0, 1}
  Name = {"out"}
  SizeModulus = 8
  IntModulus = 4
  TraceePid = 1
  Ofd = {11, 12}
  MaxLength = 2
  Uses <- AllUses
  MaxTotal = 2
SYMMETRY Addresses
CONSTRAINT Bounds
INVARIANTS
  TypeOK
  IInv
  FdsAgree
  PositionsAgree
  TotalIsWritten
  NothingCountedTwice
  TargetIsSpared
