SPECIFICATION Spec
CONSTANTS
  Openers = {o}
  Syncs = {s1, s2}
  Nothing = Nothing
  MaxWaits = 1
  MaxRemovals = 1
SYMMETRY Symmetry
INVARIANTS
  OneBackend
  CanBeMadeAgain
PROPERTIES
  RecordStays
