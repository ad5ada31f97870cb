SPECIFICATION Spec
CONSTANTS
  Yaml = {y1, y2}
  Registry = {r1, r2}
  Template = {t1, t2}
  BuildType = {"metasim", "fpga"}
  Edited = Edited
  Torn = Torn
  Missing = Missing
  None = None
SYMMETRY Symmetry
INVARIANT TypeOK
INVARIANT GateIsOwn
INVARIANT TrackedIsRendered
PROPERTY EditsGuarded
