CONSTANTS
  Submissions = {s1, s2}
  s2 = s2
  Photos = {p1, p2}
  p1 = p1
  Requests = {r1, r2}
  PhotoLimit = 1
  MaxEdits = 2
  MaxCrashes = 1
  MaxRequests = 5
  Stations = {1, 2}
  l1 = l1
  l2 = l2
  l3 = l3
  Places = {c1, c2}
  a1 = a1
  a2 = a2
  m1 = m1
  m2 = m2
  Records = {x1, x2}
  x2 = x2
  Values = {0, 1}
  Initial = 0
  Keys = {k}
  Writers = {w1}
  Reverters = {v1, v2}
  v2 = v2
  MaxOperations = 3
  MaxEntries = 4
SPECIFICATION Spec
PROPERTIES
  PhotosKept
  ReviewedAsShown
  StationsKeepTheirPhotos
  RevertsAreSound
CHECK_DEADLOCK FALSE
