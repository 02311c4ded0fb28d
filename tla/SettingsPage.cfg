CONSTANTS
    Art = {"art"}
    LogLines = 5
SPECIFICATION Spec
INVARIANTS
    RowsMatch
    ListedOnDisk
