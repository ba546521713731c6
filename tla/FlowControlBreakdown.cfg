\* Three calls, so that one finds the listener gone; three discoveries, so
\* that a state is still under way when another one ends in a panic.
SPECIFICATION FlowSpec
CONSTANTS
  Requests = {r1, r2, r3}
  Discoveries = {d1, d2, d3}
  Progress = {}
  Failures = {}
  NoRequest = NoRequest
  NoDiscovery = NoDiscovery
  MultiThreaded = TRUE
  MailboxCapacity = 2
  TransportLists <- UsbOnly
SYMMETRY Symmetry
INVARIANT PanicStrandsNobody
CHECK_DEADLOCK FALSE
