SPECIFICATION TmdbSpec
CONSTANTS
  Address = {a1, a2}
  Currency = {c1, c2}
  Value = {v1, v2}
  Unset = Unset
  MaxLog = 5
INVARIANTS
  LogUndoable
PROPERTY
  Refines
SYMMETRY Symmetry
