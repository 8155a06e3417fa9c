\* One job, two overlapping polls of the provider, one of the evaluator.
SPECIFICATION Spec
CONSTANTS
    Jobs = {j1}
    NoJob = NoJob
    NoWrite = NoWrite
    ProviderPolls = {p1, p2}
    EvaluatorPolls = {e1}
    MaxRuns = 2
    MaxVerdicts = 1
    MirrorLags = FALSE
    MaxRetries = 2
    MaxEvalRetries = 2
    MaxCrashes = 1
SYMMETRY Polls
VIEW Visible
INVARIANTS TypeOK SubmittedWasStored MarkedIsSubmitted NoStuckWorker VerdictOnSubmitted SettlementIsBacked
