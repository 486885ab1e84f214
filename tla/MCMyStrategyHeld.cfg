CONSTANTS
  Skaters = {s1, s2, s3}
  Resting = {}
  Goalies = {g1}
  Foes = {f1}
  NoId = NoId
SPECIFICATION Spec
INVARIANT
  SomebodyGoesBack
