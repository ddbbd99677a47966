CONSTANTS
  Agents = {a1, a2}
  Samplers = {s1}
  Chain <- ThreeEntries
  Compared = {3}
  MAX_TURNS = 2
  SampleRetries = 1
  Budget = 3
  Threshold = 2
  NeuronCost = 1
  TicksPerDay = 2
  Workloads <- Day
SPECIFICATION Spec
INVARIANTS AgentInv RightFixRuns FixDoesNotMoveTheBar StubNamesTheFault HintAgreesWithStub
PROPERTIES RequestsEnd
