SPECIFICATION PreparationSpec
CONSTANTS
  sda = sda
  sdb = sdb
  sdc = sdc
  gp2 = gp2
  gp3 = gp3
  Device = {sda, sdb, sdc}
  Size = {1, 2}
  Type = {gp2, gp3}
  Unset = Unset
  Cli = {c1, c2}
  Vpc = {vd, vs}
  DefaultVpc = vd
  Images <- MCImages
  Version = {v1, v2}
  OtherPath = {over}
  Default = default
  Unknown = Unknown
  Nothing = Nothing
  None = None
  Registry <- MCRegistry
  Project <- MCProject
INVARIANT PreparationTypeOK
INVARIANT ClosedIsPending
INVARIANT VolumesAsAsked
INVARIANT BuildsOnItsHdk
INVARIANT StampIsEarned
INVARIANT ValidatedResolves
INVARIANT TrackersAddressed
