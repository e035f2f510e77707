\* Every request whose texts have a boundary length.
CONSTANTS
  Absent = Absent
  Lengths <- BoundaryLengths
SPECIFICATION GateSpec
INVARIANT NothingGetsThrough
