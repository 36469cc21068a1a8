SPECIFICATION Spec
CONSTANTS
  Bits = 6
  Programs <- SumAcrossBlocks
  Literals <- MCLiterals
  Names <- MCNames
  ArgsName = "_"
  Args <- MCArgs
  Randoms <- MCRandoms
  Inputs <- MCInputs
  Registers = 12
  MaxStack = 40
  MaxOutput = 4
  Fuel = 200
INVARIANT ResultsSurviveCalls
