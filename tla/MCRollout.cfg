SPECIFICATION FairSpec
CONSTANTS
  Order <- MCOrder
  Releases = {"r0", "r1", "r2"}
  First = "r0"
  None = "none"
  Image <- MCImage
  MaxFaults = 3
  MaxPublished = 2
INVARIANTS
  AllOrNothing
PROPERTIES
  AppliedIsUniform
  Settles
CHECK_DEADLOCK FALSE
