\* A backup that was uploaded ends in the error state of an earlier one.
SPECIFICATION Spec
CONSTANT Worlds <- FailingWorlds
PROPERTY UploadedBackupEndsMonitoring
