SPECIFICATION Spec
INVARIANT ClosureIsCopied
INVARIANT MergeIsFaithful
INVARIANT PassMeansDecided
INVARIANT IndexIsWhole
INVARIANT VerdictIsEarned
CHECK_DEADLOCK FALSE
INVARIANT GatesAreHonest
INVARIANT ContractIsWitnessed
