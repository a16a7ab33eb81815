SPECIFICATION Spec

CONSTANTS
    Attempt = {a1}
    None = none

PROPERTY ChallengeStays
