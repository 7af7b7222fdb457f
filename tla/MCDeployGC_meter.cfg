\* gc.go: a release never under-counts a tenant.
SPECIFICATION MCSpec
CONSTANTS
  s1 = s1
  k1 = k1
  p1 = p1
  b1 = b1
  b2 = b2
  b3 = b3
  c1 = c1
  c2 = c2
  Site = {s1}
  Skill = {k1, p1}
  Preset = {p1}
  Blob = {b1, b2, b3}
  Content <- MCContent
  PresetContent <- MCPreset
  Client = {c1, c2}
  NoItem = NoItem
  UploadWindow = 0
  MinAge = 0
  KeepLastN = 1
  Cap = 2
  Parts = {"versions"}
INVARIANTS FinalizedDeployIsMetered
