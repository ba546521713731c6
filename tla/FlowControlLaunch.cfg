\* A window that cannot be opened.
SPECIFICATION FlowSpec
CONSTANTS
  Requests = {r1, r2}
  Discoveries = {d1}
  Progress = {"needs_pin"}
  Failures = {"excluded"}
  NoRequest = NoRequest
  NoDiscovery = NoDiscovery
  MultiThreaded = TRUE
  MailboxCapacity = 2
  TransportLists <- BothOrUsb
INVARIANT FailedLaunchCancelsRequest
CHECK_DEADLOCK FALSE
