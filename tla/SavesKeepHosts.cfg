CONSTANTS
    Host = {h1, h2}
    NoHost = NoHost
    MaxTasks = 2
SPECIFICATION Spec
SYMMETRY Symmetry
CONSTRAINT FewTasks
PROPERTIES
    SavesKeepHosts
