SPECIFICATION Spec
CONSTANTS
  k1 = k1
  k2 = k2
  k3 = k3
  v1 = v1
  v2 = v2
  Key = {k1, k2, k3}
  Value = {v1, v2}
  Nothing = Nothing
  Configs <- MCConfigs
  MaxNow = 3
SYMMETRY Interchangeable
INVARIANTS
  TypeOK
  ListMatchesMap
  RecentlyUsedStays
PROPERTIES
  ImplementsCache
