\* Each component by itself: a phone's three updates, two calls, a window
\* that is sent three states and given two entries, two requests of one frame or of two.
SPECIFICATION MCSpec
CONSTANTS
  HybridCapacity = 2
  UpdateCapacity = 2
  MaxUpdates = 3
  c1 = c1
  c2 = c2
  Calls = {c1, c2}
  CallInputs <- MCCallInputs
  DebugCallers = {}
  DebugApps = {}
  MaxU32 = 2
  Attempts <- MCAttempts
  MaxSent = 3
  MaxPending = 2
  MaxCommits = 2
  Frames = {f1, f2}
  MaxRequests = 2
  MaxPorts = 3
  MaxStops = 1
INVARIANTS
  ComponentsTypeOK
  HybridEndIsTold
  ServedAlone OnlyAdmissibleAsked
  LastStateIsShown
  OwnResponseSettles
PROPERTIES
  QrCodeFirst FirstOutcomeDecides CancelledHybridStops
  CallsAreAnswered
  CompletedPageStays FinishedWindowCloses
  PromisesSettle
CHECK_DEADLOCK FALSE
