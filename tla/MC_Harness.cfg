SPECIFICATION Spec
CONSTANTS
  MaxPods = 2
  PodStates <- MCPodStates
  Starting <- MCStarting
  ScaleTries = 2
  ConnectTries = 3
  Retries = 0
  RestartAttempts = 2
  Titles = {"new title"}
  Cases = 2
INVARIANTS LoginMeetsConfiguredInstance PodsRunWhatWasWritten SchemaPodsUseSchemaUser OneForward
PROPERTIES TestsEnd
CHECK_DEADLOCK FALSE
