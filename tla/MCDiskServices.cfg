\* Services, a program at the ports, resets and floppy changes in any order;
\* as many cylinders as a transfer tells apart.
SPECIFICATION Spec
CONSTANTS
  NoMedium = NoMedium
  SectorBytes = 2
  CylinderRadix = 2
  HeadRadix = 2
  MCCylinders = 2
  HardDisks <- MCHardDisks
  Floppies <- MCFloppies
  Values <- MCValues
  Payload <- MCPayload
  Counts = {1, 3}
  Requested <- MCRequested
  MaxWrites = 2
INVARIANTS
  TypeOK
PROPERTIES
  Truthful
