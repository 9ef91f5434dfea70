\* Two page loops and two requests of the user, three started in all.
CONSTANTS
  MaxLoops = 2
  PageLimit = 2
  Caches = {"paged", "whole"}
  Stored <- OutOfOrder
  Handlers = {1, 2, 101, 102}
  MaxTokens = 2
  MaxArrivals = 3
  MaxStarts = 3
  MaxFailures = 1
SPECIFICATION Spec
INVARIANTS TypeOK LoadedWhole FewRequests OneRecord SessionAgrees
CHECK_DEADLOCK FALSE
