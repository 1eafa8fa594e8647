SPECIFICATION Spec
CONSTANTS
  s1 = s1
  s2 = s2
  s3 = s3
  r1 = r1
  Scanner = {s1, s2, s3}
  Reporter = {r1}
  NoOne = NoOne
  Absent = Absent
  Empty = ""
  Endpoint = {"a", "b"}
  Config = {"k", "l"}
  Observation <- MCConfigs
SYMMETRY MCSymmetry
INVARIANT AnyHistoryPromise
