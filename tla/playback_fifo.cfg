\* both counters wrap, again and again: MaxAppl does not bind; appl_ptr is never
\* below zero
SPECIFICATION SpecAboveZero
CONSTANTS
  s1 = s1
  s2 = s2
  Sample <- TwoSamples
  BufSize = 3
  Channels = 2
  Boundary = 12
  HalfWord = 18
  MaxAppl = 15
  MaxOverrun = 2
INVARIANT TypeOK
PROPERTY ImplementsFifo
