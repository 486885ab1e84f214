CONSTANTS
  Skaters = {s1, s2, s3}
  Resting = {r1}
  Goalies = {g1}
  Foes = {f1}
  NoId = NoId
SPECIFICATION Spec
SYMMETRY SkaterSymmetry
INVARIANTS
  TypeOK
  FirstCatchTracked
  InitialDefenceManned
  DefendersFaceFoes
  DefenderDismissed
  OneCallbackPerPreference
  PreferenceNeedsPossession
