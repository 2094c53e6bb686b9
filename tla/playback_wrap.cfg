\* both counters wrap, again and again: MaxAppl does not bind
SPECIFICATION Spec
CONSTANTS
  s1 = s1
  s2 = s2
  Sample <- OneSample
  BufSize = 3
  Channels = 2
  Boundary = 15
  HalfWord = 21
  MaxAppl = 15
  MaxOverrun = 2
INVARIANTS AvailExact IInv RegionsBounded RegionsFree
PROPERTY RoomNeverShrinks
