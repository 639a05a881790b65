SPECIFICATION FairSpec
CONSTANTS
    None = None
    c1 = c1
    c2 = c2
    Controllers <- TwoControllers
    Kinds <- AllKinds
    MaxEpoch = 2
    MaxCommits = 2
    CallEpochs = 1
INVARIANTS HolderIsCurrent CommitsInEpochOrder CleanupSurvivesDrain
PROPERTIES NoAnswerAfterRelease LossFences DrainStopsWork
CHECK_DEADLOCK FALSE
