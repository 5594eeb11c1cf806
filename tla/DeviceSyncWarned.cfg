SPECIFICATION Spec
CONSTANTS
  Devices = {d1,d2}
  Animes = {a1}
  Requests = {r1}
  Idle = Idle
  MaxRows = 2
SYMMETRY Symmetry
INVARIANT
  WarnedRowsKept
