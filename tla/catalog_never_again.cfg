CONSTANTS
  t1 = t1
  t2 = t2
  p1 = p1
  msk = msk
  spb = spb
  Events <- MCEvents
  Source <- MCSource
  Home <- MCHome
  Default = msk
  NoCity = NoCity
  Runs = {1, 2}
  Scenes <- QuietScenes
  Attempts = 2
  MaxVersion = 1
  MaxFaults = 2
SPECIFICATION Spec
PROPERTY CatchesUp
CHECK_DEADLOCK FALSE
