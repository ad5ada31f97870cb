SPECIFICATION FairSpec
CONSTANTS
  Cli = {c1}
  Launcher = {c1}
  Job = {r1, r2}
  Ephemeral = {e1, e2}
  Managed = {}
  External = {}
  Commands = {"monitor", "abandon"}
  None = None
INVARIANT TypeOK
PROPERTY HandleKept
PROPERTY LeaseSpec
PROPERTY RunningSettles
CHECK_DEADLOCK FALSE
