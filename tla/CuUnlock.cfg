SPECIFICATION CSpec
CONSTANTS
  Arrays <- MCArrays
  MaxInits = 3
INVARIANTS
  CuMasksWhenFree
CHECK_DEADLOCK FALSE
