\* Every option, both architectures, two signals at any time.
SPECIFICATION FairSpec
CONSTANTS
  None = None
  Scenarios <- Started
  OldMasks <- Masks
  SentSignals <- Signals
  MaxSignals = 2
  ProgramCalls <- Calls
INVARIANTS
  TypeOK
  StartsTraced
  TrapIsConsumed
  SignalsKept
  ForwardedNotFatal
  JailHolds
  FollowedAreSeen
  CallsAnswered
PROPERTIES
  OptionsTakeEffect
  NobodyWaits
