SPECIFICATION Spec
CONSTANTS
  Devices = {d1}
  Animes = {a1}
  Requests = {r1}
  Idle = Idle
  MaxRows = 1
SYMMETRY Symmetry
PROPERTY
  RevokedStaysRevoked
