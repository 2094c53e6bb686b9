\* the contract of io_unchecked read strictly: no other IO object exists
SPECIFICATION Spec
CONSTANTS
  io1 = io1
  io2 = io2
  io3 = io3
  S16 = S16
  S32 = S32
  Float = Float
  S24 = S24
  AnyFormat = AnyFormat
  None = None
  Handles <- ThreeHandles
  Formats <- FourFormats
  MaxNesting = 3
  SharedUnchecked = FALSE
INVARIANTS IInv FormatMatches MmapOnConfigured
PROPERTY HwFixedWhileIo
