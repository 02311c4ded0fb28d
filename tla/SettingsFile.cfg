CONSTANTS
    Levels <- TwoLevels
    Placements <- TwoPlacements
    Rates <- TwoRates
    Offers <- SomeModes
    NoMode = NoMode
    Odd = Odd
SPECIFICATION FileSpec
INVARIANTS
    SettingsSurvive
