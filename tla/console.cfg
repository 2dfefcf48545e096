\* Every data view, MaxClicks user actions.  The user may stop at any time.
CONSTANTS
  MaxClicks = 3
  MaxAsked = 1
  MaxPage = 2
  EmptyRanges = {1}
  EmptyFilters = {"device"}
  StartRoutes <- DataRoutes
SPECIFICATION Spec
INVARIANTS
  TypeOK
  ShowsCurrent
  ErrorIsNewest
  PageExists
  MarksStay
  BlankOnlyOnTrapSignals
  ColumnsOnce
  OptionsFitChoice
CHECK_DEADLOCK FALSE
