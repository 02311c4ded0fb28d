CONSTANTS
    Ports = 2
    Paths = 2
    App = {a1, a2}
    Cert = {c1, c2}
    NoApp = NoApp
    NoCert = NoCert
SPECIFICATION ClientSpec
INVARIANTS
    PairedIsGranted
    StatusIsAnswered
PROPERTIES
    StuckOnlyBySilence
