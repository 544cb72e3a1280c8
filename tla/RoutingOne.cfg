SPECIFICATION Spec
CONSTANTS
  Sessions = {s1}
  None = None
  Configs <- AnyConfig
  Replicas = 2
  MaxCommits = 2
INVARIANTS ReadOnlyNeverWrites ReplicaNeverWritten ReadsMoveOnce
PROPERTY SeesOwnWrites
