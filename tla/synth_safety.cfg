\* a card of any speed: it may run dry between any two steps of the loop
SPECIFICATION Spec
CONSTANTS
  BufSize = 4
  AvailMin = 1
  Timeout = TRUE
  Burst = 4
  MaxEvents = 3
  MaxSuspends = 2
INVARIANTS IInv NoEventLeftBehind EndsForCause
PROPERTY StartsFull
\* run may return with an error
CHECK_DEADLOCK FALSE
