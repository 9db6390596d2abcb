CONSTANTS
  Lines <- MCLines
  Plans <- MCPlans
  Offers <- OffersOf
  KeyOf <- Keys
  Needs <- Logins
  Editors <- MCEditors
  Checked = {"user email"}
  Setups <- MCSetups
  Distros <- MCDistros
  MaxRuns = 3
SPECIFICATION Spec
INVARIANTS
  AllAsAsked
  RebootTold
  ReadyWhenReached
  EditedAsTold
PROPERTIES
  RerunChangesNothing
  FileWhole
CHECK_DEADLOCK FALSE
