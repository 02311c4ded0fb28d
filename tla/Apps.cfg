CONSTANTS
    Host = {h1, h2}
    Title = {t1}
    NoHost = NoHost
    MaxDeleted = 1
    MaxFavorites = 1
SPECIFICATION Spec
SYMMETRY Symmetry
VIEW Behaviour
INVARIANTS
    ListsBelongToHosts
    LoadingIsFetched
    FlagsHaveFiles
PROPERTIES
    SlotsHeld
    AppsRemembered
