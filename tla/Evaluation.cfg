SPECIFICATION EvaluationSpec
CONSTANTS
    Size = 4
    Sequences <- MCSequences
    Probes <- MCProbes
    Text <- MCText
    Baseline = 82
    MaxHistory = 2
    MaxEvaluations = 3
    MaxProbes = 1
    MaxGiveUps = 1
    MaxFailures = 1
    MaxRestarts = 1
CHECK_DEADLOCK FALSE
INVARIANTS
  EnginesAgree
  FitnessWasMeasured
  AcceptedPassesTheGuard
PROPERTIES
  VerdictsAreStable
