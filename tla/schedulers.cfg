\* The schedulers left to themselves, and with administrators.
SPECIFICATION Spec
CONSTANT Worlds <- SafetyWorlds
INVARIANTS TypeOK AutomaticExclusion
PROPERTIES ArchiveOfStoppedServer CancelledCountdownNeverRestarts
