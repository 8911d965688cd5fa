SPECIFICATION CliSpec
CONSTANTS
  Lines <- MCLines
  MaxSize = 6
  MaxTyped = 9
INVARIANTS
  BufferBounded
  VisitsWhatIsTyped
PROPERTIES
  FailureEndsProgram
CHECK_DEADLOCK FALSE
