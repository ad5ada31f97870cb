SPECIFICATION Spec
CONSTANTS
  Cli = {c1}
  Job = {b1, b2}
  Ephemeral = {e1}
  Managed = {m1}
  External = {x1}
  Commands = {"build", "monitor", "abandon"}
  None = None
SYMMETRY Symmetry
PROPERTY ForeignUntouched
PROPERTY LeaseSpec
