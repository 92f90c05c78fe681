SPECIFICATION Spec
CONSTANTS
    Logical <- MCLogical
    Names <- MCNames
    NoTopic = NoTopic
    MaxAttempts = 2
    Namers <- MCNamers
INVARIANTS TypeOK SameHandler NeverUnhandled FailuresBounded NothingStranded
