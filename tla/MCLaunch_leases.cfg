SPECIFICATION Spec
CONSTANTS
  p1 = p1
  p2 = p2
  p3 = p3
  r1 = r1
  r2 = r2
  Processes = {p1, p2, p3}
  Runtimes = {r1, r2}
  RuntimeOf <- MCRuntimeOf
  RootLock = RootLock
  Nobody = Nobody
  Trouble = {"kill", "calls"}
INVARIANTS
  OneWriter
  TerminalRestored
PROPERTIES
  RefusalNamesHolder
SYMMETRY MCSymmetry
CHECK_DEADLOCK FALSE
