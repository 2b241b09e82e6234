SPECIFICATION Spec
CONSTANTS
  N = 4
  KernelStacks = 4
  UserStacks = 2
  WaitFor <- AnyPid
  Ops = {"spawn", "thread", "join", "exit", "wait"}
  Preemptible = FALSE
  KillUnborn = FALSE
INVARIANTS StacksExclusive UserStacksExclusive ZombieIsDead
CHECK_DEADLOCK FALSE
