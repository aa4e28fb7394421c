SPECIFICATION Spec
CONSTANTS
  MaxFrames = 2
  MaxCalls = 2
  MaxPrograms = 3
  MaxMessages = 2
  MaxTurns = 2
  MaxCrashes = 1
INVARIANTS
    CallerWaits
    LoopsOwnFrames
    CallOnce
    NobodyWaits
CHECK_DEADLOCK FALSE
