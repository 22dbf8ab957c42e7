CONSTANTS
  c1 = c1 c2 = c2 c3 = c3
  s1 = s1 s2 = s2 s3 = s3
  r1 = r1 r12 = r12 r3 = r3
  d1 = d1 d2 = d2
  Datasets = {d1, d2}
  Releases = {r1, r3}
  Slices = {s1, s3}
  DatasetOf <- PairDataset
  Covers <- PairCovers
  Layouts <- PairLayouts
  Contents = {c1, c2}
  Readings <- PairReadings
  NoDataset = NoDataset
  NoRelease = NoRelease
  NoContent = NoContent
  HoldShrinkPercent = 20
  MaxAttempts = 2
  MaxChanges = 0
SPECIFICATION Spec
PROPERTY RequestedIsDecided
