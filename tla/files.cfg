SPECIFICATION Spec
CONSTANTS
  Name = {a, b}
  Lang = {x, y}
  Text = {s, t}
  Run = {1, 2, 3}
  English = FALSE
  Dialects = {"sqlite", "postgres"}
  MaxRuns <- RunBound
  MaxEdits = 1
  MaxUnrecorded <- UnrecordedBound
  MaxRestarts <- RestartBound
  NoText = NoText
  NoRow = NoRow
  NoEdit = NoEdit
SYMMETRY Interchangeable
INVARIANTS
  FilesSound
  SettledWhenQuiet
  KeyCountExact
PROPERTIES
  CorrectionKept
  FreshAfterRun
CHECK_DEADLOCK FALSE
