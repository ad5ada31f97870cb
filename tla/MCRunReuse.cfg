SPECIFICATION Spec
CONSTANTS
  Cli = {c1}
  Launcher = {c1}
  Job = {r1, r2}
  Ephemeral = {}
  Managed = {m1}
  External = {x1}
  Commands = {"monitor", "abandon"}
  None = None
SYMMETRY Symmetry
PROPERTY LeaseSpec
CHECK_DEADLOCK FALSE
