\* Every order of rewriting steps on all control codes of MCPrograms.
SPECIFICATION FairSpec
CONSTANTS
  Programs <- MCPrograms
  SourceConfig <- MCSource
  TargetConfig <- MCTarget
  MaxRepeatCount = 4
INVARIANTS
  AddressesKept
  SyncKept
  WaitsMatch
PROPERTY Terminates
CHECK_DEADLOCK FALSE
