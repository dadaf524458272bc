SPECIFICATION ReloadSpec
CONSTANTS
  IdleCycles = 4
  PhyResetCycles = 3
INVARIANTS
  TypeOK
  FiresAfterQuiet
  PhyResetFirst
PROPERTIES
  DecisionLatched
  ReloadHappens
