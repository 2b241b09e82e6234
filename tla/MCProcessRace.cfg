SPECIFICATION Spec
CONSTANTS
  N = 5
  KernelStacks = 5
  UserStacks = 1
  WaitFor <- AnyPid
  Ops = {"spawn", "thread", "wait", "exit"}
  Preemptible = TRUE
  KillUnborn = FALSE
INVARIANT ArmedHasStack
CHECK_DEADLOCK FALSE
