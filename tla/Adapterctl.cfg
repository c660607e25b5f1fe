\* An install that fails, a second one, an upgrade and an uninstall fit into four
\* commands; one row tells a backup before it from one after.
SPECIFICATION Spec
CONSTANTS
    MaxCommands = 4
    MaxRows = 1
INVARIANTS
    InstallerTypeOK
    BackupsAreWhole
    UpgradeHasBackup
    EnvPasswordOpens
PROPERTY ForeignUntouched
CHECK_DEADLOCK FALSE
