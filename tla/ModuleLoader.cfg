CONSTANTS
    a = a
    b = b
    c = c
    i1 = i1
    i2 = i2
    Nobody = Nobody
    Modules <- ThreeModules
    Importers <- TwoImporters
    Graphs <- SomeGraphs
    Sources <- AnyLoad
    Wanted <- AnyWants
    InProcess = TRUE
SPECIFICATION FairLoaderSpec
INVARIANTS LoaderTypeOK FailuresHaveCauses NoDependencyIsDropped DependenciesFirst
PROPERTY EveryImportEnds
CHECK_DEADLOCK FALSE
