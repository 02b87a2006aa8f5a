SPECIFICATION Spec
CONSTANTS
  Procs = {p1, p2}
  Absent = Absent
  Torn = Torn
  Budget <- MCBudget
INVARIANTS
  TypeOK
  NoSettingIsLost
  RegistryAgrees
  OneObserver
  OutcomeIsTrue
PROPERTIES
  FileIsAtomic
SYMMETRY Symmetry
CHECK_DEADLOCK FALSE
