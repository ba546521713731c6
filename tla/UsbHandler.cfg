\* Two keys, two questions per ceremony.
SPECIFICATION FairSpec
CONSTANTS
  Keys = {k1, k2}
  NoKey = NoKey
  ListFailures = 2
  StreamCapacity = 2
  KeyErrors = {"excluded"}
  MaxAttempts = 1
  MaxQuestions = 2
  MaxAssertions = 2
INVARIANTS UsbTypeOK ChosenAlone PromptOnScreen
PROPERTIES ResultSettles ParkedSelectionGoesDark CancelledHandlerStops
CHECK_DEADLOCK FALSE
