CONSTANTS
  Stations = {s, t}
  Sites = {a}
  Groups = {g, h}
  Locations = {l}
  Coordinates = {1, 2}
  SourceOf <- OneSource
  Editors = {e}
  Importer = Importer
  MaxEdits = 1
  MaxImports = 1
  None = None
SPECIFICATION Spec
SYMMETRY Symmetry
INVARIANT LinksAsRebuilt
CHECK_DEADLOCK FALSE
