\* io_unchecked while other IO objects exist, as its contract allows
SPECIFICATION Spec
CONSTANTS
  io1 = io1
  io2 = io2
  io3 = io3
  S16 = S16
  S32 = S32
  Float = Float
  S24 = S24
  AnyFormat = AnyFormat
  None = None
  Handles <- ThreeHandles
  Formats <- FourFormats
  MaxNesting = 3
  SharedUnchecked = TRUE
PROPERTY HwFixedWhileIo
