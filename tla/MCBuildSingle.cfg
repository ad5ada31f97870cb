SPECIFICATION FairSpec
CONSTANTS
  Cli = {c1}
  Job = {b1, b2}
  Ephemeral = {e1, e2}
  Managed = {}
  External = {}
  Commands = {"build", "monitor", "abandon"}
  None = None
INVARIANT TypeOK
INVARIANT OneBuildInFlight
PROPERTY StatusForward
PROPERTY RunningSettles
