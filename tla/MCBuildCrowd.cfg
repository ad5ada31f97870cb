SPECIFICATION Spec
CONSTANTS
  Cli = {c1, c2}
  Job = {b1, b2}
  Ephemeral = {e1, e2}
  Managed = {}
  External = {}
  Commands = {"build", "monitor", "abandon", "clean"}
  None = None
SYMMETRY Symmetry
INVARIANT CleanupTrusted
INVARIANT SuccessIsOwn
INVARIANT TeardownAfterExit
