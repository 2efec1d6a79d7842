SPECIFICATION Spec
CONSTANTS
  Addrs = {a1, a2}
  Mod = 10
  Window = 3
  Retries = 1
  Depth = 2
  Callers <- MCCallers
  Start = {0, 9}
  MaxFrames = 3
  MaxResets = 1
CHECK_DEADLOCK FALSE
SYMMETRY Symmetry
INVARIANT TypeOK
PROPERTY OpensOnce KeepsStep
