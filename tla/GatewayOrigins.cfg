\* An unprivileged client's origin, against a list of its own.
SPECIFICATION GatewaySpec
CONSTANTS
  c1 = c1
  Calls = {c1}
  CallInputs <- MCCallInputs
  DebugCallers = {}
  DebugApps = {}
INVARIANT UnprivilegedOriginsAreListed
CHECK_DEADLOCK FALSE
