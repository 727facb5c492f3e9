SPECIFICATION FairSpec
CONSTANTS
    j1 = j1
    j2 = j2
    Job = {j1, j2}
    Asks <- MCAsks
    Refresher = main
    MaxEdits = 1
    MaxCatalogs = 1
    MaxRestarts = 1
INVARIANTS
    LoadedIsTheFile
    StoredIsTrue
PROPERTIES
    EditIsNoticed
