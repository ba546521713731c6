\* The runtime of main.rs: any two steps may be interleaved.
SPECIFICATION ServiceSpec
CONSTANTS
  Requests = {r1, r2, r3}
  Discoveries = {d1, d2}
  Progress = {"progress"}
  Failures = {"excluded"}
  NoRequest = NoRequest
  MultiThreaded = TRUE
INVARIANTS ServiceTypeOK NoReplyLost TokenCancelledIffAnswered OutcomeOwnOrOvertaken
PROPERTIES AnswerIsFinal ImplementsSingleCeremony
CHECK_DEADLOCK FALSE
