SPECIFICATION Spec
CONSTANTS
    None = None
    Malformed = Malformed
    Junk = Junk
    PerSource = 3
    RetainedMax = 5
    Evidence <- Sessions
    Arrivals = {"mono_gc", "futex"}
    Peer <- Calm
    Budgets <- StrictBudgets
    Ladders <- LadderSet
    MaxRuns = 2
    MaxErrors = 1
INVARIANT ScoresFollowEvidence
INVARIANT WorstComesFirst
INVARIANT AttributionSound
INVARIANT TimelineFaithful
INVARIANT GatesNeedEvidence
INVARIANT CleanFinalizeIsCurrent
INVARIANT CompareSound
INVARIANT PowerLawRecovered
