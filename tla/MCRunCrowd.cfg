SPECIFICATION Spec
CONSTANTS
  Cli = {c1, c2}
  Launcher = {c1, c2}
  Job = {r1, r2}
  Ephemeral = {e1, e2}
  Managed = {}
  External = {}
  Commands = {"monitor", "abandon"}
  None = None
SYMMETRY Symmetry
INVARIANT CleanupTrusted
INVARIANT SuccessIsOwn
INVARIANT TeardownAfterExit
INVARIANT SlotIsOwn
CHECK_DEADLOCK FALSE
