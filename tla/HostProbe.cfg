CONSTANTS
    Host = {h1, h2}
SPECIFICATION Spec
PROPERTIES
    NoResetUnderWorkers
    RoundsEnd
    RoundSpec
