\* Three devices.  The user may stop at any time.
CONSTANTS
  d1 = d1
  d2 = d2
  d3 = d3
  NoDevice = NoDevice
  Devices <- MCDevices
  FirstKnown <- MCKnown
  Found <- MCFound
  MaxClicks = 3
SPECIFICATION Spec
INVARIANTS
  TypeOK
  ListIsRegistered
  SelectedIsWanted
  InfoOfSelected
  FoundIsNewest
CHECK_DEADLOCK FALSE
