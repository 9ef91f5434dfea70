\* Back on the dashboard before the first loop has ended, or after it ended elsewhere.
CONSTANTS
  MaxLoops = 2
  PageLimit = 2
  Caches = {"paged", "whole"}
  Stored <- OutOfOrder
  Handlers = {1, 2, 101}
  MaxTokens = 2
  MaxArrivals = 3
  MaxStarts = 3
  MaxFailures = 0
SPECIFICATION Spec
INVARIANT NoEstimateTwice
CHECK_DEADLOCK FALSE
