SPECIFICATION FairSpec
CONSTANTS
  lit = lit
  Null = null
  Args = args
  ArgsName = "_"
  Names = {"_", "x"}
  Literals = {lit}
  MaxSize = 5
  MaxNested = 8
  Asts <- MCAsts
INVARIANTS
  TypeOK
  UniqueIds
  Pending
  OperandsDefined
  NothingAfterLeaving
  SuccessorsAcyclic
  HeldPointersStable
  ControlComplete
  DefinitionsDominate
  PhisComplete
PROPERTIES
  ClosedStays
  Termination
