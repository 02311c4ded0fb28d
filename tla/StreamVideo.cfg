CONSTANT
    MaxUnits = 4
SPECIFICATION VideoSpec
INVARIANTS
    UnitsGivenBack
    ReferencesHold
PROPERTIES
    ShownForward
    FramesRendered
    StopEnds
