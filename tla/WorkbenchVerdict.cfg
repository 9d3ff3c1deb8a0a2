SPECIFICATION BenchSpec
CONSTANTS
  CaseCount = 2
  SampleCount = 1
  MaxOrders = 1
  MaxBenchFaults = 0
INVARIANT VerdictNamesCause
CHECK_DEADLOCK FALSE
