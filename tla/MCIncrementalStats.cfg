SPECIFICATION Spec
CONSTANTS
  Values <- MCValues
  WindowSizes = {0, 1, 4}
  Inf = 9
  LowerLimit = 0
  UpperLimit = 2
  MaxAdds = 6
  MaxNulls = 1
INVARIANTS
  TypeOK
  RunningSums
  RingHoldsWindow
  MinMaxOfWindow
  MeanAndVarianceOfWindow
  MedianOfWindow
  ReportConsistent
PROPERTY RefinesWindow
