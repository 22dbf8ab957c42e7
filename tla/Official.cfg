CONSTANTS
  None = None
  Sources = {"source", "other"}
  Datasets = {"permits"}
  SourceOf <- OfOneSource
  RequestKinds = {"import"}
  CliKinds = {"import"}
  Intervals = {1, 2, 3}
  Schedulers = {a1, a2}
  Requesters = {r1, r2}
  MaxTime = 3
  Slots = {i1, i2}
  Admins = {b1, b2}
  Operators = {x, y}
  Brands = {brand}
  Null = None
  MaxRuns = 2
  MaxAttempts = 2
  x = x
  y = y
  z = z
  l = l
  m = m
  siteA = siteA
  siteB = siteB
  HoldShrinkPercent = 20
  SiteIds = {1, 2}
  PermitIds = {1, 2}
  RemapDatasets = {"permits", "registry"}
  RemapOperators = {x, y, z}
  Codes = {"a"}
  Values = {"v", "w"}
  Licensee = l
  Others = {m}
  SiteChoices <- SitesToChoose
  ListedBy = {l, m, None}
  Watched = {{1}}
  Mappings <- OneMapping
  Targets = {y, None}
  RemapAttempts = 2
  PermitNumbers = {p, q, r}
  Hops = {h, k}
  Widths = {v, w}
  Specs = {t}
  MaxRecords = 2
  MaxReleases = 2
  Stations = {s, t}
  Sites = {"a"}
  Groups = {"g", "h"}
  Locations = {"here"}
  Coordinates = {1, 2}
  SourceOfSite <- OneSource
  e = e
  Editors = {e, f}
  Importer = Importer
  MaxEdits = 3
  MaxImports = 2
SPECIFICATION PartSpec
INVARIANTS
  LicenseeStaysMapped
  SettledAsRebuilt
PROPERTIES
  QueuedOnce
  RemapMovesWhatItMust
  SitesAsPublished
  LinksAsPublished
CHECK_DEADLOCK FALSE
