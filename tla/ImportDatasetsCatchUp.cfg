CONSTANTS
  c1 = c1 c2 = c2 c3 = c3
  s1 = s1 s2 = s2 s3 = s3
  r1 = r1 r12 = r12 r3 = r3
  d1 = d1 d2 = d2
  Datasets = {d1}
  Releases = {r1}
  Slices = {s1}
  DatasetOf <- UnitDataset
  Covers <- UnitCovers
  Layouts <- UnitLayouts
  Contents = {c1, c2, c3}
  Readings <- UnitReadings
  NoDataset = NoDataset
  NoRelease = NoRelease
  NoContent = NoContent
  HoldShrinkPercent = 20
  MaxAttempts = 1
  MaxChanges = 1
SPECIFICATION FairSpec
PROPERTY CatchesUp
