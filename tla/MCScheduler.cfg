CONSTANTS
  MaxTasks = 3
  HalfTicks = 4
  SliceTicks = 2
  MaxDelay = 2
  MaxJiffies = 2
SPECIFICATION Spec
INVARIANTS TypeOK OneRunning OnTime NoEarlyWake
PROPERTIES NoOvertaking ReadyRuns SleeperWakes ImplementsFairCpu
