\* Deploys, skill uploads, preset seeding and the collector, five choices of who does what.
SPECIFICATION MCSpec
CONSTANTS
  s1 = s1
  k1 = k1
  p1 = p1
  b1 = b1
  b2 = b2
  b3 = b3
  c1 = c1
  c2 = c2
  Site = {s1}
  Skill = {k1, p1}
  Preset = {p1}
  Blob = {b1, b2, b3}
  Content <- MCContent
  PresetContent <- MCPreset
  Client = {c1, c2}
  NoItem = NoItem
  UploadWindow = 0
  MinAge = 0
  KeepLastN = 1
  Cap = 1
  Parts = {"versions", "race", "shared", "presets", "seeders"}
INVARIANTS TypeOK CounterMatchesLedger WithinQuota LiveSkillHasManifest
PROPERTIES SparesFreshUploads ServedContentSurvives
