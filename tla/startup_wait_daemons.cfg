\* Is -w what the help says?
SPECIFICATION FairSpec
CONSTANTS
  None = None
  Scenarios <- Started
  OldMasks <- Masks
  SentSignals <- Signals
  MaxSignals = 2
  ProgramCalls <- Calls
INVARIANT WaitsIfAsked
