SPECIFICATION FairSpec
CONSTANTS
  Bits = 6
  Programs <- MCPrograms
  Literals <- MCLiterals
  Names <- MCNames
  ArgsName = "_"
  Args <- MCArgs
  Randoms <- MCRandoms
  Inputs <- MCInputs
  Registers = 3
  MaxStack = 60
  MaxOutput = 4
  Fuel = 200
  MaxSize = 5
  MaxNested = 6
INVARIANTS
  TypeOK
  StackDiscipline
  Agrees
  HomesComplete
PROPERTIES
  ConstantsStay
  Terminates
