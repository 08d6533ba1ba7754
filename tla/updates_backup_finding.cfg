\* The backup of a jar whose file is older than the other backups is deleted at once.
SPECIFICATION Spec
CONSTANTS
    Plugins = {"plugin"}
    Jobs = {j1}
    MaxVersion = 3
    MaxMc = 1
    KeepBackups = 1
    MaxRequests = 4
PROPERTY BackupSurvives
