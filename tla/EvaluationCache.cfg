SPECIFICATION EvaluationSpec
CONSTANTS
    Size = 4
    Sequences <- MCSequences
    Probes <- MCProbes
    Text <- MCText
    Baseline = 82
    MaxHistory = 2
    MaxEvaluations = 2
    MaxProbes = 0
    MaxGiveUps = 0
    MaxFailures = 0
    MaxRestarts = 1
INVARIANT AcceptedIsNotRefuted
CHECK_DEADLOCK FALSE
