SPECIFICATION Spec
CONSTANTS
  NoDoc = NoDoc
  NoOrder = NoOrder
  Editable <- Talkgroups
  FormKeys <- NewId
  FormNames <- OneName
  InitialDocs <- OneGroup
  MaxEdits = 1
  MaxConns = 1
  MaxOut = 1
CHECK_DEADLOCK FALSE
INVARIANTS
  LoopSurvives
