SPECIFICATION FairSpec
CONSTANTS
  Sources <- MCSources
  MaxTokens = 6
  lit = lit
  Literals = {lit}
  Names = {"x"}
INVARIANTS
  TypeOK
  OnlyOpenCallsWait
  ParsesAsTree
  TreeReady
PROPERTY Stops
