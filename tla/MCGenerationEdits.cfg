SPECIFICATION Spec
CONSTANTS
  Yaml = {y1, y2}
  Registry = {r1}
  Template = {t1}
  BuildType = {"fpga"}
  Edited = Edited
  Torn = Torn
  Missing = Missing
  None = None
PROPERTY EditsSurvive
