\* Safety, with two windows' worth of overlap: two requests, two discoveries.
SPECIFICATION FlowSpec
CONSTANTS
  Requests = {r1, r2}
  Discoveries = {d1, d2}
  Progress = {"needs_pin"}
  Failures = {"excluded"}
  NoRequest = NoRequest
  NoDiscovery = NoDiscovery
  MultiThreaded = TRUE
  MailboxCapacity = 2
  TransportLists <- BothOrUsb
SYMMETRY Symmetry
INVARIANTS FlowTypeOK LiveLoopOwnsSlot CancelledByOwnUser RefusedOnlyAfterFailedLaunch UiToldAfterClient EntryReachesOwnCeremony ClientToldTheDecision
CHECK_DEADLOCK FALSE
