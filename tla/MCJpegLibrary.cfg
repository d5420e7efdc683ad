SPECIFICATION MCSpec
CONSTANTS
  DCTSIZE = 2
  Pictures <- MCPictures
  BitmapSizes <- MCBitmapSizes
  MaxPictures = 2
  MaxFailures = 1
  BlockScales <- MCBlockScales
  Levels <- MCLevels
  DcLevel = 5
  QuantTable <- MCQuantTable
  CoefJobs <- MCCoefJobs
  MaxFaults = 1
  MaxEOBRUN = 3
  MAX_CORR_BITS = 65
  TurnJobs <- MCTurnJobs
INVARIANTS
  FaultNeedsCause
  WritesInside
  BitmapWhole
  Released
  CallsReturn
  CoefficientsReturn
  ScansAddUp
  PictureTurns
\* after a bad access nothing is known of the program any more
CHECK_DEADLOCK FALSE
