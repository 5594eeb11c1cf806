SPECIFICATION Spec
CONSTANTS
  Animes = {a1, a2}
  Names = {n1, n2}
  Progress = {0,1}
  NoSnapshot = NoSnapshot
  NoBase = NoBase
  MaxNow = 2
  MaxEvents = 3
  MaxRows = 3
SYMMETRY Symmetry
CONSTRAINT Slices
INVARIANTS
  TypeOK
  NoLostUpdate
  FeedInOrder
  FeedConverges
  RowsDescribeSaves
PROPERTIES
  RowsPassWhatPhonesSaw
  TokensGrow
