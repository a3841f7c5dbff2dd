SPECIFICATION AdapterSpec
CONSTANTS
  MaxLines = 2
  MaxTolerated = 1
INVARIANTS
  AdapterRunInv
PROPERTIES
  NoSignalAfterAnyRun
  TaskIsAnswered
  AgentIsGone
CHECK_DEADLOCK FALSE
