SPECIFICATION Spec
CONSTANTS
    Pool = {31, 32, 33, 34, 35}
    Boot <- BootTables
    KernelFrame = 40
    Data = 60
    Junk = 24
    Addresses <- SomeAddresses
    Targets = {50}
INVARIANTS TablesAreATree
PROPERTIES OthersKeepTheirTranslation MmapTranslates OnlyRemapMakesStale
CHECK_DEADLOCK FALSE
