CHECK_DEADLOCK FALSE
SPECIFICATION FairSpec
CONSTANTS
  Cli = {c1}
  Job = {b1}
  Ephemeral = {e1}
  Managed = {}
  External = {}
  Commands = {"build", "monitor"}
  None = None
PROPERTY FinalizeResumes
