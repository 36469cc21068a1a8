SPECIFICATION Spec
CONSTANTS
  Bits = 5
  Operands <- MCOperands
INVARIANT ListsEqualItemwise
