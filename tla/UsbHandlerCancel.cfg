\* A request cancelled while the keys blink.
SPECIFICATION FairSpec
CONSTANTS
  Keys = {k1, k2}
  NoKey = NoKey
  ListFailures = 2
  StreamCapacity = 2
  KeyErrors = {"excluded"}
  MaxAttempts = 1
  MaxQuestions = 2
  MaxAssertions = 2
PROPERTY CancelStopsBlinking
CHECK_DEADLOCK FALSE
