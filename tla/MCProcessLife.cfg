SPECIFICATION FairSpec
CONSTANTS
  N = 4
  KernelStacks = 3
  UserStacks = 0
  WaitFor <- AnyPid
  Ops = {"spawn", "wait", "exit", "kill"}
  Preemptible = FALSE
  KillUnborn = FALSE
INVARIANTS TypeOK StacksExclusive CreatorsSerialized WaiterNotForgotten
PROPERTIES ZombieUntilReported WaitReturns LockReleased
CHECK_DEADLOCK FALSE
