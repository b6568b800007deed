SPECIFICATION TouchSpec
CONSTANTS
  Slots = {s1, s2, s3}
  ChordSize = 2
  CAPACITY = 1
  Packets <- DriverPackets
  MaxContactId = 3
  MaxGeneration = 2
SYMMETRY SlotSymmetry
INVARIANTS
  QuietMeansReleased ChordCleansOnce
PROPERTIES
  PointerStream
