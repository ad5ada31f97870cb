SPECIFICATION FairSpec
CONSTANTS
  Job = {r1, r2}
  Ephemeral = {e1}
  Managed = {m1}
  External = {}
  Dir = {"payloads"}
  Name = {"a"}
  Reserved = {"driver"}
  good = good
  bad = bad
  Digest = {good, bad}
  Torn = Torn
  Absent = Absent
  None = None
  Project <- MCProject
INVARIANT TypeOK
INVARIANT SlotIsOwn
INVARIANT SuccessIsOwn
INVARIANT VerifiedPayload
INVARIANT HeldIsKnown
PROPERTY ForeignUntouched
PROPERTY RunEnds
CHECK_DEADLOCK FALSE
