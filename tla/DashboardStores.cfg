CONSTANTS
  Writers = {h1, h2, monitor}
  Monitor = monitor
  Free = free
  MaxLines = 1
  MaxRecords = 4
  Devices = {d1, d2}
  Entries = {n1}
  Labels = {a}
  MaxFavorites = 1
  MaxRevision = 2
SYMMETRY Alike
SPECIFICATION Spec
INVARIANTS LogKeepsTheLast ReadInOrder LogTellsTheMode NoBlindEdit
