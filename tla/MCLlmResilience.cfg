SPECIFICATION Spec
CONSTANTS
  Selectors = {agents, classifier}
  AgentSelector = agents
  NumProviders = 2
  MaxFailures = 2
  OpenDuration = 2
  Prompts = {q1}
  Never = Never
  NoCall = NoCall
  MaxTime = 3
CHECK_DEADLOCK FALSE
INVARIANTS
  TypeOK
  FailureBudget
  OpenIsEarned
  PassedOverWithCause
  GaugeOneMeansOpened
PROPERTIES
  ImplementsBreakers
