\* Two devices with two interfaces.  Nothing has to happen next.
CONSTANTS
  Hosts = {"r1", "r2"}
  Interfaces = {"Gi1", "Gi2"}
  NoDevice = "none"
  MaxEvents = 4
SPECIFICATION Spec
INVARIANTS
  TypeOK
  DrawnIsCurrent
CHECK_DEADLOCK FALSE
