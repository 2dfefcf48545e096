\* Two items at the start, and the name of a third.  The user may stop at any
\* time, and a page gone blank stops for good.
CONSTANTS
  n1 = n1
  n2 = n2
  n3 = n3
  NoName = NoName
  Nobody = Nobody
  Names <- MCNames
  FirstStored <- MCStored
  MaxClicks = 3
SPECIFICATION Spec
INVARIANTS
  TypeOK
  ShownIsPicked
  ToldTheTruth
CHECK_DEADLOCK FALSE
