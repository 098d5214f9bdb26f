\* Two processes migrate a database that is new or behind, two workers wait.
CONSTANTS
    Migrators = {m1, m2}
    NScripts = 2
    Repeatable = {1, 2}
    MaxKills = 2
    Services = {w1}
    Needed = {1}
SPECIFICATION BringUpSpec
INVARIANTS
    ScriptsInOrder
    ReturnedIsComplete
    SomeoneGetsThrough
PROPERTIES
    RetriedMigrateGetsThrough
    MigratedIsServed
