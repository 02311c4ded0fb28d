SPECIFICATION Spec
CONSTANTS
    InitialRepeat = 2
    Repeat = 1
    ScrollRepeat = 1
    ExitHold = 1
    MaxDown = 2
VIEW NoIssued
INVARIANTS PressedAreDown
PROPERTIES ChoiceNeedsNeutral MovesArePaced CombinationIsNoCommand
CHECK_DEADLOCK FALSE
