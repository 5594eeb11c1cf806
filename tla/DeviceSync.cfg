SPECIFICATION Spec
CONSTANTS
  Devices = {d1,d2}
  Animes = {a1,a2}
  Requests = {r1,r2}
  Idle = Idle
  MaxRows = 2
SYMMETRY Symmetry
CONSTRAINT Slices
INVARIANTS
  TypeOK
  OwedRowsKept
  AcksAreHeld
PROPERTIES
  AcksNeverGoBack
  CursorsNeverGoBack
  ListsCatchUp
