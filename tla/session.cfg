SPECIFICATION FairSpec
INVARIANTS
  TypeOK
  DeletedAfterReaders
  FifoReadOnlyWhenClosing
  EstablishedSurvives
PROPERTIES
  SwitchCloseEndsSession
  ControllerLossEndsSession
CHECK_DEADLOCK FALSE
