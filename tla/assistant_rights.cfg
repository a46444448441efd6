SPECIFICATION Spec
CONSTANTS
  Org = {o}
  Home = Home
  Project = {p, q}
  File = {f, g, h}
  Name = {n, m}
  Lang = {en, t, u}
  Master = en
  Provider = {x, y}
  x = x
  y = y
  x1 = x1
  x2 = x2
  y1 = y1
  Models <- MCModels
  DefaultModel <- MCDefaultModel
  Format = {w}
  BuiltIn = BuiltIn
  MaxProjects = 2
  MaxLangs = 2
  MaxDownloads = 2
  MaxEvents = 1
  None = None
  MaxRepeats = 2
  MaxCalls = 3
  Usage <- MCUsage
PROPERTY CreatedWithRights
CHECK_DEADLOCK FALSE
