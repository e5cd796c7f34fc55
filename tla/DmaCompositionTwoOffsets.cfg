\* A loop whose variable is used by two offsets of one pattern.
SPECIFICATION Spec
CONSTANTS
  Programs <- TwoDependencies
  SourceConfig <- MCSource
  TargetConfig <- MCTarget
  MaxRepeatCount = 4
INVARIANT AddressesKept
CHECK_DEADLOCK FALSE
