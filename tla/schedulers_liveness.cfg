\* A due maintenance stop, with others handling the server too.
SPECIFICATION FairSpec
CONSTANT Worlds <- LivenessWorlds
PROPERTY MaintenanceStopHappens
