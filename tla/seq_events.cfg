\* values of a kind differ by name only
SPECIFICATION Spec
CONSTANTS
  s1 = s1
  s2 = s2
  i1 = i1
  i2 = i2
  b1 = b1
  b2 = b2
  No = No
  Slots <- TwoSlots
  Inputs <- TwoInputs
  Bytes <- TwoBytes
  OutRoom = 2
  MaxSent = 3
SYMMETRY Symmetry
INVARIANTS SentAsSaid OrderKept
PROPERTY BytesStay
