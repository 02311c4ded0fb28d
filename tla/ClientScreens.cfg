CONSTANTS
    Host = {h1, h2}
    App = {a1, a2}
    NoHost = NoHost
    NoApp = NoApp
    Longest = 2
SPECIFICATION Spec
INVARIANTS
    IndicesHold
    SelectionSurvives
PROPERTIES
    ModalKeepsTarget
