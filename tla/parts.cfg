SPECIFICATION Spec
CONSTANTS
  MaxDevice = 2
  MaxSubs = 2
  Unplugs = TRUE
  Things = {1, 2, 3}
  Elems = {1, 2, 3}
  Objects = 2
  MaxFds = 2
  Times = {0, 1, 2}
  Nanos = {0, 7}
  Voices = 3
  Bars = 2
  Notes = {"c", "e"}
  Vols = {3, 4}
  Step = 2
INVARIANTS RawTypeOK InOrder PassComplete NoRepeat IndexGivesElem NothingLost
INVARIANTS FieldsReadAsWritten SizesAgree KernelUnderstands
INVARIANTS StampAsAsked OwnEvents NoBlankPolled
PROPERTIES TwoWayComplete PassesEnd NoClicks
\* elem_list and poll_all end, a structure has been read, a card goes away
CHECK_DEADLOCK FALSE
