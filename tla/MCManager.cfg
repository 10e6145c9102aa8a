\* Two managers on one file and one port, one run: startup, crashes, restarts.
SPECIFICATION FairSpec
CONSTANTS
    Process = {m1, m2}
    RunId = {r1}
    UsedCategory = {"trainer", "output"}
    Edited = {"axolotl"}
    None = none
INVARIANTS TypeOK ServingIsReady MigrationIsRepeatable PresetsAgree IInv
PROPERTIES RowsSurvive StartupSettles
