SPECIFICATION Spec
CONSTANTS
  Services = {s1}
  Kinds = {"key"}
  MaxChanges = 2
  MaxFaults = 0
PROPERTY RevokedKeyFails
\* The bounds on changes end a behaviour.
CHECK_DEADLOCK FALSE
