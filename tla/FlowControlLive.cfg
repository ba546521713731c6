\* Liveness, with one discovery.
SPECIFICATION FlowFairSpec
CONSTANTS
  Requests = {r1, r2}
  Discoveries = {d1}
  Progress = {"needs_pin"}
  Failures = {"excluded"}
  NoRequest = NoRequest
  NoDiscovery = NoDiscovery
  MultiThreaded = TRUE
  MailboxCapacity = 2
  TransportLists <- BothOrUsb
PROPERTIES CallsReturnUnlessLoopBroke LoopsEnd
CHECK_DEADLOCK FALSE
