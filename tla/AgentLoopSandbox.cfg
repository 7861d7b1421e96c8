SPECIFICATION Spec
CHECK_DEADLOCK FALSE
CONSTANTS
  ToolNames = {"sys_info", "security_violation_log"}
  AlarmNames = {"security_violation_log"}
  MaxIterations = 2
  MaxCalls = 2
INVARIANT UnknownToolsForwarded
