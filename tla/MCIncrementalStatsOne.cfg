SPECIFICATION Spec
CONSTANTS
  Values <- MCValues
  WindowSizes = {1}
  Inf = 9
  LowerLimit = 0
  UpperLimit = 2
  MaxAdds = 6
  MaxNulls = 1
INVARIANT DocumentedMedian
