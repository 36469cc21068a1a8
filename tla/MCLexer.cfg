SPECIFICATION FairSpec
CONSTANTS
  Nul = Nul
  Texts <- MCTexts
  MaxText = 4
  MaxLonger = 5
INVARIANTS
  Segmented
  SpacingLaw
  LinesCounted
PROPERTY
  Stops
