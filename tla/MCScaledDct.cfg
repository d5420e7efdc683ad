SPECIFICATION BlockSpec
CONSTANTS
  BlockScales <- MCScaledSizes
  Levels <- MCScaledLevels
  DcLevel = 5
  QuantTable <- MCScaledTable
INVARIANT CoefficientsReturn
\* a block is drawn and coded once
CHECK_DEADLOCK FALSE
