SPECIFICATION Spec
CONSTANTS
  Bits = 6
  Operands <- MCOperands
INVARIANTS
  TypeOK
  Trichotomy
  Lexicographic
  DivisionLaw
  PowerLaw
  SpliceLaw
